---- MODULE Spec2Model ----
(***************************************************************************)
(* Model of the menubuilder editor (jiapeiLu/menubuilder): the Item Store  *)
(* (controller.current_menu_data), the displayed QTreeWidget with its      *)
(* item_map, the projector (populate_menu_tree), the flattener             *)
(* (get_ordered_data_from_tree + _sync_data_from_ui), the name validator   *)
(* (_is_name_conflict) and the editing gestures of the handlers.           *)
(*                                                                         *)
(* Strings are sequences of one-character strings, so that split('/'),     *)
(* startswith, lower and the f-string joins are computed, not assumed.     *)
(* "=" stands for U+2500 and "#" for U+25A1 (the module is ASCII).         *)
(***************************************************************************)
EXTENDS Integers, Sequences, FiniteSets, TLC

VARIABLES
    current_menu_data,          \* controller.current_menu_data: list of MenuItemData
    tree,                       \* ui.menu_tree_view with ui.item_map, nodes in pre-order
    current_edit_item,          \* controller.current_edit_item (0 = None)
    insertion_target_item_data, \* controller.insertion_target_item_data
    is_dirty,                   \* controller.is_dirty
    tree_enabled,               \* ui.menu_tree_view.isEnabled()
    last,                       \* what the last gesture did (history)
    gestures,                   \* number of gestures performed so far
    pc,                         \* position of the round-trip / probe harness
    snap,                       \* list kept by the round-trip harness
    probe,                      \* arguments and result of the last validator call
    host                        \* the host application: menu objects and the optionVar registry

vars == <<current_menu_data, tree, current_edit_item, insertion_target_item_data,
          is_dirty, tree_enabled, last, gestures, pc, snap, probe, host>>

editor_vars == <<current_edit_item, insertion_target_item_data, is_dirty, tree_enabled,
                 last, gestures>>
harness_vars == <<pc, snap, probe, host>>

-----------------------------------------------------------------------------
(* Bounds of the model *)

MaxItems == 3
MaxGestures == 5
MaxLen == 3
MaxProbeLen == 2

-----------------------------------------------------------------------------
(* Python str operations *)

Min(S) == CHOOSE m \in S : \A n \in S : m <= n
Max(S) == CHOOSE m \in S : \A n \in S : m >= n

lower_char(c) ==
    CASE c = "A" -> "a"
      [] c = "B" -> "b"
      [] c = "R" -> "r"
      [] c = "T" -> "t"
      [] OTHER -> c

lower(s) == [i \in 1..Len(s) |-> lower_char(s[i])]

startswith(s, p) == Len(p) <= Len(s) /\ SubSeq(s, 1, Len(p)) = p

RECURSIVE split(_)
split(s) ==
    IF \E i \in 1..Len(s) : s[i] = "/"
    THEN LET i == Min({j \in 1..Len(s) : s[j] = "/"})
         IN  <<SubSeq(s, 1, i - 1)>> \o split(SubSeq(s, i + 1, Len(s)))
    ELSE <<s>>

\* f"{parent}/{name}" if parent else name
join_path(parent, name) ==
    IF parent # <<>> THEN parent \o <<"/">> \o name ELSE name

RECURSIVE join(_)
join(parts) ==
    IF Len(parts) = 0 THEN <<>>
    ELSE IF Len(parts) = 1 THEN parts[1]
    ELSE parts[1] \o <<"/">> \o join(Tail(parts))

-----------------------------------------------------------------------------
(* Display strings of languagelib/language.py *)

divider_text == <<"=", "=", "=", "=", "=", "=", "=", "=", "=", "=">>
option_box_prefix(label) == <<"(", "#", ")", " ">> \o label
separator_label == <<"-", "-", "-">>

-----------------------------------------------------------------------------
(* MenuItemData: id is the object's identity, the other fields are the      *)
(* dataclass fields the handlers read and write.                            *)

MenuItemData(id, label, path, ob, div) ==
    [id |-> id, menu_label |-> label, sub_menu_path |-> path, order |-> 10,
     is_option_box |-> ob, is_divider |-> div]

Rec(store, id) == CHOOSE r \in {store[i] : i \in 1..Len(store)} : r.id = id

Ids(store) == {store[i].id : i \in 1..Len(store)}

-----------------------------------------------------------------------------
(* The tree widget.  A node is [text, data, depth, key, mapped]: data is   *)
(* the id of the wrapped record (0 for a folder node), key is the          *)
(* item_map key the node was registered under and mapped tells whether     *)
(* item_map[key] still is this node.  Nodes are kept in pre-order.         *)

DepthOf(t, i) == IF i = 0 THEN 0 ELSE t[i].depth

SubtreeEnd(t, i) ==
    IF i = 0 THEN Len(t)
    ELSE LET later == {j \in (i + 1)..Len(t) : t[j].depth <= t[i].depth}
         IN  IF later = {} THEN Len(t) ELSE Min(later) - 1

ParentOf(t, i) ==
    IF t[i].depth = 1 THEN 0
    ELSE Max({j \in 1..(i - 1) : t[j].depth = t[i].depth - 1})

ChildrenOf(t, p) == {j \in 1..Len(t) : ParentOf(t, j) = p}

InsertAfter(s, pos, e) == SubSeq(s, 1, pos) \o <<e>> \o SubSeq(s, pos + 1, Len(s))

\* QTreeWidgetItem(parent, [text]): appended as the last child of parent
AddChild(t, parent, node) ==
    InsertAfter(t, SubtreeEnd(t, parent), [node EXCEPT !.depth = DepthOf(t, parent) + 1])

MapHas(t, key) == \E i \in 1..Len(t) : t[i].key = key /\ t[i].mapped
MapGet(t, key) == CHOOSE i \in 1..Len(t) : t[i].key = key /\ t[i].mapped

\* item_map[key] = node i
MapSet(t, key, i) ==
    [j \in 1..Len(t) |->
        IF j = i THEN [t[j] EXCEPT !.key = key, !.mapped = TRUE]
        ELSE IF t[j].key = key THEN [t[j] EXCEPT !.mapped = FALSE]
        ELSE t[j]]

\* ui.py 363-375: walk / extend the folder chain of one record
RECURSIVE resolve_parent(_, _, _, _, _)
resolve_parent(t, parts, k, parent, full_path_key) ==
    IF k > Len(parts) THEN [tree |-> t, parent |-> parent]
    ELSE LET key == join_path(full_path_key, parts[k])
         IN  IF MapHas(t, key)
             THEN resolve_parent(t, parts, k + 1, MapGet(t, key), key)
             ELSE LET pos == SubtreeEnd(t, parent) + 1
                      t2 == AddChild(t, parent,
                               [text |-> parts[k], data |-> 0, depth |-> 0,
                                key |-> key, mapped |-> TRUE])
                  IN  resolve_parent(t2, parts, k + 1, pos, key)

display_label(item_data) ==
    IF item_data.is_divider THEN divider_text
    ELSE IF item_data.is_option_box THEN option_box_prefix(item_data.menu_label)
    ELSE item_data.menu_label

\* ui.py 360-404: one iteration of the loop over items
place_item(t, item_data) ==
    LET r == IF item_data.sub_menu_path # <<>>
             THEN resolve_parent(t, split(item_data.sub_menu_path), 1, 0, <<>>)
             ELSE [tree |-> t, parent |-> 0]
        pos == SubtreeEnd(r.tree, r.parent) + 1
        final_path == join_path(item_data.sub_menu_path, item_data.menu_label)
        t2 == AddChild(r.tree, r.parent,
                 [text |-> display_label(item_data), data |-> item_data.id,
                  depth |-> 0, key |-> final_path, mapped |-> FALSE])
    IN  MapSet(t2, final_path, pos)

RECURSIVE populate_from(_, _, _)
populate_from(items, k, t) ==
    IF k > Len(items) THEN t
    ELSE populate_from(items, k + 1, place_item(t, items[k]))

populate_menu_tree(items) == populate_from(items, 1, <<>>)

\* the parent_path argument the recursive walk holds when it visits the children of node i
RECURSIVE walk_path(_, _)
walk_path(t, i) ==
    IF i = 0 THEN <<>>
    ELSE join_path(walk_path(t, ParentOf(t, i)), t[i].text)

\* a plausible slip: the walk descends into folder nodes only
RECURSIVE _recursive_tree_walk_folders_only(_, _, _)
_recursive_tree_walk_folders_only(t, store, i) ==
    IF i > Len(t) THEN <<>>
    ELSE (IF t[i].data # 0 /\ (ParentOf(t, i) = 0 \/ t[ParentOf(t, i)].data = 0)
          THEN <<[Rec(store, t[i].data) EXCEPT
                    !.sub_menu_path = walk_path(t, ParentOf(t, i))]>>
          ELSE <<>>)
         \o _recursive_tree_walk_folders_only(t, store, i + 1)

\* ui.py 492-512: depth-first walk; every wrapped record gets the accumulated path
RECURSIVE _recursive_tree_walk(_, _, _)
_recursive_tree_walk(t, store, i) ==
    IF i > Len(t) THEN <<>>
    ELSE (IF t[i].data # 0
          THEN <<[Rec(store, t[i].data) EXCEPT
                    !.sub_menu_path = walk_path(t, ParentOf(t, i))]>>
          ELSE <<>>)
         \o _recursive_tree_walk(t, store, i + 1)

get_ordered_data_from_tree(t, store) == _recursive_tree_walk(t, store, 1)

\* a plausible slip: the flatten keeps the order values the records have
_sync_data_from_ui_keeps_order(t, store) == get_ordered_data_from_tree(t, store)

\* controller.py 280-298
_sync_data_from_ui(t, store) ==
    LET ordered == get_ordered_data_from_tree(t, store)
    IN  [i \in 1..Len(ordered) |-> [ordered[i] EXCEPT !.order = i * 10]]

-----------------------------------------------------------------------------
(* controller.py 244-278: the name validator *)

\* step 1: labels of the records at proposed_path, the updated record left out
direct_sibling_names(store, proposed_path, item_being_updated) ==
    {lower(store[i].menu_label) :
        i \in {j \in 1..Len(store) :
                 /\ store[j].id # item_being_updated
                 /\ store[j].sub_menu_path = proposed_path}}

\* a plausible slip: the prefix is taken without its trailing "/"
folder_prefix_no_slash(proposed_path) == proposed_path

folder_prefix(proposed_path) ==
    IF proposed_path # <<>> THEN proposed_path \o <<"/">> ELSE <<>>

\* step 2: names of the folders implied one level below proposed_path
virtual_folder_names(store, proposed_path) ==
    LET prefix == folder_prefix(proposed_path)
    IN  {lower(split(SubSeq(store[i].sub_menu_path, Len(prefix) + 1,
                            Len(store[i].sub_menu_path)))[1]) :
            i \in {j \in 1..Len(store) :
                     /\ startswith(store[j].sub_menu_path, prefix)
                     /\ Len(store[j].sub_menu_path) > Len(prefix)}}

\* a plausible slip: the record being updated is compared like any other
_is_name_conflict_counts_self(store, proposed_label, proposed_path, item_being_updated) ==
    lower(proposed_label) \in
        direct_sibling_names(store, proposed_path, 0)
            \cup virtual_folder_names(store, proposed_path)

_is_name_conflict(store, proposed_label, proposed_path, item_being_updated) ==
    lower(proposed_label) \in
        direct_sibling_names(store, proposed_path, item_being_updated)
            \cup virtual_folder_names(store, proposed_path)

-----------------------------------------------------------------------------
(* Values of the history and harness variables before anything ran         *)

NoProbe == [label |-> <<>>, path |-> <<>>, excluding |-> 0, result |-> FALSE]
NoLast == [gesture |-> "none", outcome |-> "none", source |-> 0]
NoSnap == [input |-> <<>>, first |-> <<>>]

\* a host that holds no menu object of the tool and no optionVar
NoHost == [objects |-> {}, optionVar |-> <<>>, builds |-> 0]

-----------------------------------------------------------------------------
(* Python list operations on dataclass instances: index, remove and `in`   *)
(* compare with the generated __eq__, that is field by field.              *)

Equal(r1, r2) == [r1 EXCEPT !.id = 0] = [r2 EXCEPT !.id = 0]

\* list.index(x); 0 stands for ValueError
list_index(store, x) ==
    LET hits == {i \in 1..Len(store) : Equal(store[i], x)}
    IN  IF hits = {} THEN 0 ELSE Min(hits)

\* list.remove(x)
list_remove(store, x) ==
    LET i == list_index(store, x)
    IN  SubSeq(store, 1, i - 1) \o SubSeq(store, i + 1, Len(store))

\* controller.py 834-846; returns the id of the option box, 0 for None
_get_option_box_for_parent(parent_item, data_list) ==
    LET current_index == list_index(data_list, parent_item)
    IN  IF /\ current_index # 0
           /\ current_index + 1 <= Len(data_list)
           /\ data_list[current_index + 1].is_option_box
        THEN data_list[current_index + 1].id
        ELSE 0

\* controller.py 819-832
_is_parent_item(parent_candidate, data_list) ==
    /\ ~parent_candidate.is_option_box
    /\ _get_option_box_for_parent(parent_candidate, data_list) # 0

\* the smallest identity no record of the store has
NewId(store) == Min({n \in 1..(Len(store) + 1) : n \notin Ids(store)})

-----------------------------------------------------------------------------
(* Qt: what the tree widget itself does                                    *)

HasChildren(t, i) == SubtreeEnd(t, i) > i

NextSibling(t, i) ==
    LET e == SubtreeEnd(t, i)
    IN  IF e < Len(t) /\ t[e + 1].depth = t[i].depth THEN e + 1 ELSE 0

PrevSibling(t, i) ==
    LET c == {j \in 1..(i - 1) : t[j].depth = t[i].depth /\ SubtreeEnd(t, j) = i - 1}
    IN  IF c = {} THEN 0 ELSE Max(c)

\* QTreeWidget.itemBelow: the next visible row; `expanded` is the expansion of node i
itemBelow(t, i, expanded) ==
    IF HasChildren(t, i) /\ expanded THEN i + 1
    ELSE IF SubtreeEnd(t, i) < Len(t) THEN SubtreeEnd(t, i) + 1
    ELSE 0

\* QTreeWidget.itemAbove: the previous visible row; `expanded` is the expansion
\* of the previous sibling
itemAbove(t, i, expanded) ==
    LET p == PrevSibling(t, i)
    IN  IF p = 0 THEN ParentOf(t, i)
        ELSE IF HasChildren(t, p) /\ expanded THEN i - 1
        ELSE p

\* ui.py 377-404: folder nodes keep the default flags, option boxes and
\* dividers lose ItemIsDragEnabled and ItemIsDropEnabled
IsFolderNode(t, i) == t[i].data = 0

IsDragEnabled(t, store, i) ==
    IF IsFolderNode(t, i) THEN TRUE
    ELSE ~Rec(store, t[i].data).is_option_box /\ ~Rec(store, t[i].data).is_divider

\* the invisible root takes drops
IsDropEnabled(t, store, i) == IF i = 0 THEN TRUE ELSE IsDragEnabled(t, store, i)

\* the parent the dragged node would get
DropParent(t, target, indicator) ==
    CASE indicator = "OnItem" -> target
      [] indicator \in {"AboveItem", "BelowItem"} -> ParentOf(t, target)
      [] OTHER -> 0

\* QAbstractItemView: a move onto the dragged node or into its own subtree moves nothing
droppingOnItself(t, source, target, indicator) ==
    LET dp == DropParent(t, target, indicator)
    IN  \/ (dp # 0 /\ dp >= source /\ dp <= SubtreeEnd(t, source))
        \/ (indicator \in {"AboveItem", "BelowItem"} /\ target = source)

\* QTreeWidget.dropEvent under InternalMove: the dragged subtree is taken out
\* and put on / before / after the target
qt_move(t, source, target, indicator) ==
    IF droppingOnItself(t, source, target, indicator) THEN t
    ELSE LET e == SubtreeEnd(t, source)
             block == SubSeq(t, source, e)
             rest == SubSeq(t, 1, source - 1) \o SubSeq(t, e + 1, Len(t))
             tg == IF target > e THEN target - (e - source + 1) ELSE target
             d == CASE indicator = "OnItem" -> rest[tg].depth + 1
                    [] indicator \in {"AboveItem", "BelowItem"} -> rest[tg].depth
                    [] OTHER -> 1
             pos == CASE indicator = "AboveItem" -> tg - 1
                      [] indicator \in {"OnItem", "BelowItem"} -> SubtreeEnd(rest, tg)
                      [] OTHER -> Len(rest)
             moved == [k \in 1..Len(block) |->
                          [block[k] EXCEPT !.depth = block[k].depth - t[source].depth + d]]
         IN  SubSeq(rest, 1, pos) \o moved \o SubSeq(rest, pos + 1, Len(rest))

Indicators == {"OnItem", "AboveItem", "BelowItem", "OnViewport"}

\* the drops Qt delivers to dropEvent: the source can be dragged, the
\* position is on a node that takes drops or beside a node whose parent does
CanDrop(t, store, source, target, indicator) ==
    /\ IsDragEnabled(t, store, source)
    /\ (indicator = "OnViewport") = (target = 0)
    /\ IsDropEnabled(t, store, DropParent(t, target, indicator))

-----------------------------------------------------------------------------
(* The editor: state after construction and the gestures                   *)

\* get_path_for_item (ui.py 548-554): the texts from the root down to node i
get_path_for_item(t, i) == walk_path(t, i)

NodeRec(t, store, i) == Rec(store, t[i].data)

\* ui.py 877-915: the validation of DraggableTreeWidget.dropEvent
dropEvent_rejects(t, store, target, indicator, expanded) ==
    \/ /\ indicator = "OnItem" /\ target # 0
       /\ t[target].data # 0
    \/ /\ indicator = "BelowItem" /\ target # 0
       /\ LET item_below == itemBelow(t, target, expanded)
          IN  /\ item_below # 0
              /\ ParentOf(t, item_below) = ParentOf(t, target)
              /\ t[item_below].data # 0
              /\ NodeRec(t, store, item_below).is_option_box
    \/ /\ indicator = "AboveItem" /\ target # 0
       /\ t[target].data # 0
       /\ NodeRec(t, store, target).is_option_box

\* the record `id` of the store with its path replaced (an in-place field write)
SetPath(store, id, path) ==
    [i \in 1..Len(store) |->
        IF store[i].id = id THEN [store[i] EXCEPT !.sub_menu_path = path] ELSE store[i]]

\* tree_interaction_handler.py 125-129
relocate_option_box(synced, source_id, option_box_id) ==
    LET s1 == SetPath(synced, option_box_id, Rec(synced, source_id).sub_menu_path)
        option_box_to_follow == Rec(s1, option_box_id)
        s2 == list_remove(s1, option_box_to_follow)
        new_parent_index == list_index(s2, Rec(s1, source_id))
    IN  InsertAfter(s2, new_parent_index, option_box_to_follow)

\* tree_interaction_handler.py 119-129: the store after a completed drop of
\* the record source_id, t being the tree as Qt left it
on_drop_event_completed(t, store, source_id) ==
    LET option_box_to_follow == _get_option_box_for_parent(Rec(store, source_id), store)
        synced == _sync_data_from_ui(t, store)
    IN  IF option_box_to_follow # 0
        THEN relocate_option_box(synced, source_id, option_box_to_follow)
        ELSE synced

\* controller._refresh_ui_tree_and_paths: the tree is rebuilt from the store
_refresh_ui_tree_and_paths(store) == populate_menu_tree(store)

\* a rebuilt tree deletes the node current_edit_item points to
AfterRebuild(edit_item) ==
    IF edit_item.node = "none" THEN edit_item ELSE [node |-> "deleted", data |-> 0]

\* one more gesture of the user
Count == gestures < MaxGestures /\ gestures' = gestures + 1

Done(gesture, outcome) == [gesture |-> gesture, outcome |-> outcome, source |-> 0]

Nodes == 1..Len(tree)

\* one drop: the node `source` is released at `indicator` of the node `target`
\* (0 is the viewport), `expanded` being the expansion the row lookup meets
DropAt(source, target, indicator, expanded) ==
    /\ CanDrop(tree, current_menu_data, source, target, indicator)
    /\ expanded => (indicator = "BelowItem" /\ HasChildren(tree, target))
    /\ IF dropEvent_rejects(tree, current_menu_data, target, indicator, expanded)
       THEN /\ last' = Done("drop", "rejected")
            /\ UNCHANGED <<current_menu_data, tree, is_dirty>>
       ELSE LET moved == qt_move(tree, source, target, indicator)
            IN  IF tree[source].data = 0
                THEN /\ tree' = moved
                     /\ last' = Done("drop", "folder")
                     /\ UNCHANGED <<current_menu_data, is_dirty>>
                ELSE /\ current_menu_data' =
                           on_drop_event_completed(moved, current_menu_data,
                                                   tree[source].data)
                     /\ tree' = _refresh_ui_tree_and_paths(current_menu_data')
                     /\ is_dirty' = TRUE
                     /\ last' = [gesture |-> "drop", outcome |-> "accepted",
                                 source |-> tree[source].data]

DropGesture ==
    /\ Count
    /\ tree_enabled
    /\ \E source \in Nodes, target \in 0..Len(tree), indicator \in Indicators,
          expanded \in BOOLEAN :
          DropAt(source, target, indicator, expanded)
    /\ UNCHANGED <<current_edit_item, insertion_target_item_data, tree_enabled,
                   harness_vars>>

\* what the user can type into the label and path fields and into a folder name
LabelInputs == {<<"a">>, <<"b">>}
PathInputs == {<<>>, <<"a">>}
RenameInputs == {<<"a">>, <<"b">>}

NoEdit == [node |-> "none", data |-> 0]
BlankRecord == MenuItemData(0, <<>>, <<>>, FALSE, FALSE)
NoTarget == [set |-> FALSE, ref |-> 0, copy |-> BlankRecord]

\* the fields of the object insertion_target_item_data points to
TargetRecord(store, target) ==
    IF target.ref # 0 THEN Rec(store, target.ref) ELSE target.copy

\* the target object lives on with its fields when the store drops it
Detach(target, before, after) ==
    IF target.set /\ target.ref # 0 /\ target.ref \notin Ids(after)
    THEN [set |-> TRUE, ref |-> 0, copy |-> [Rec(before, target.ref) EXCEPT !.id = 0]]
    ELSE target

\* the record `id` with the editor's label and path written into it
UpdateFields(store, id, label, path) ==
    [i \in 1..Len(store) |->
        IF store[i].id = id
        THEN [store[i] EXCEPT !.menu_label = label, !.sub_menu_path = path]
        ELSE store[i]]

\* a plausible slip: the store is flattened before the name check
on_add_item_clicked_sync_first(t, store, edit_item, target, label, path) ==
    LET item_to_update == IF edit_item.node = "live" THEN edit_item.data ELSE 0
        synced == _sync_data_from_ui(t, store)
    IN  IF label = <<>> THEN [outcome |-> "empty", store |-> store]
        ELSE IF edit_item.node = "deleted" THEN [outcome |-> "error", store |-> store]
        ELSE IF _is_name_conflict(synced, label, path, item_to_update)
        THEN [outcome |-> "conflict", store |-> synced]
        ELSE IF item_to_update # 0
        THEN [outcome |-> "accepted",
              store |-> UpdateFields(synced, item_to_update, label, path)]
        ELSE LET edited_data == MenuItemData(NewId(synced), label, path, FALSE, FALSE)
                 target_index == IF target.set
                                 THEN list_index(synced, TargetRecord(synced, target))
                                 ELSE 0
             IN  [outcome |-> "accepted",
                  store |-> IF target_index # 0
                            THEN InsertAfter(synced, target_index, edited_data)
                            ELSE Append(synced, edited_data)]

\* editor_panel_handler.py 96-141: outcome and store of a click on add / update
on_add_item_clicked(t, store, edit_item, target, label, path) ==
    LET item_to_update == IF edit_item.node = "live" THEN edit_item.data ELSE 0
        synced == _sync_data_from_ui(t, store)
    IN  IF label = <<>> THEN [outcome |-> "empty", store |-> store]
        ELSE IF edit_item.node = "deleted" THEN [outcome |-> "error", store |-> store]
        ELSE IF _is_name_conflict(store, label, path, item_to_update)
        THEN [outcome |-> "conflict", store |-> store]
        ELSE IF item_to_update # 0
        THEN [outcome |-> "accepted",
              store |-> UpdateFields(synced, item_to_update, label, path)]
        ELSE LET edited_data == MenuItemData(NewId(synced), label, path, FALSE, FALSE)
                 target_index == IF target.set
                                 THEN list_index(synced, TargetRecord(synced, target))
                                 ELSE 0
             IN  [outcome |-> "accepted",
                  store |-> IF target_index # 0
                            THEN InsertAfter(synced, target_index, edited_data)
                            ELSE Append(synced, edited_data)]

\* a plausible slip: the panel refresh leaves the tree view as it is, enabled
_refresh_editor_panel_keeps_tree(edit_item) == TRUE

\* controller.py 607-646: the tree view is disabled while an item is under
\* edit and enabled otherwise; the result is the enabled state of the tree
_refresh_editor_panel(edit_item) == edit_item.node = "none"

AddItemClicked ==
    /\ Count
    /\ \E label \in LabelInputs \cup {<<>>}, path \in PathInputs :
        LET r == on_add_item_clicked(tree, current_menu_data, current_edit_item,
                                     insertion_target_item_data, label, path)
            gesture == IF current_edit_item.node = "none" THEN "add" ELSE "edit"
        IN  /\ (gesture = "add" /\ r.outcome = "accepted")
                  => Len(current_menu_data) < MaxItems
            /\ last' = Done(gesture, r.outcome)
            /\ current_menu_data' = r.store
            /\ IF r.outcome = "accepted"
               THEN /\ tree' = _refresh_ui_tree_and_paths(r.store)
                    /\ current_edit_item' = NoEdit
                    /\ insertion_target_item_data' =
                          IF gesture = "add" THEN NoTarget ELSE insertion_target_item_data
                    /\ is_dirty' = TRUE
                    /\ tree_enabled' = _refresh_editor_panel(current_edit_item')
               ELSE UNCHANGED <<tree, current_edit_item, insertion_target_item_data,
                                is_dirty, tree_enabled>>
            /\ UNCHANGED harness_vars

\* tree_interaction_handler.py 96-105 with controller._refresh_editor_panel
DoubleClick ==
    /\ Count
    /\ tree_enabled
    /\ \E i \in Nodes :
          /\ tree[i].data # 0
          /\ ~NodeRec(tree, current_menu_data, i).is_divider
          /\ current_edit_item' = [node |-> "live", data |-> tree[i].data]
    /\ tree_enabled' = _refresh_editor_panel(current_edit_item')
    /\ last' = Done("double_click", "edit_mode")
    /\ UNCHANGED <<current_menu_data, tree, insertion_target_item_data, is_dirty,
                   harness_vars>>

\* editor_panel_handler.py 82-93
CancelEdit ==
    /\ Count
    /\ current_edit_item.node # "none"
    /\ current_edit_item' = NoEdit
    /\ tree' = _refresh_ui_tree_and_paths(current_menu_data)
    /\ tree_enabled' = _refresh_editor_panel(current_edit_item')
    /\ last' = Done("cancel", "done")
    /\ UNCHANGED <<current_menu_data, insertion_target_item_data, is_dirty,
                   harness_vars>>

\* tree_interaction_handler.py 39-67: a click on empty space, a folder or a divider
EnterAddMode ==
    /\ Count
    /\ tree_enabled
    /\ current_edit_item' = NoEdit
    /\ insertion_target_item_data' = NoTarget
    /\ last' = Done("add_mode", "done")
    /\ UNCHANGED <<current_menu_data, tree, is_dirty, tree_enabled, harness_vars>>

\* ui.py 566-572: the context menu's reading of "this item owns an option box"
menu_is_parent_item(t, store, i, expanded) ==
    /\ t[i].data # 0
    /\ ~NodeRec(t, store, i).is_option_box
    /\ LET item_below == itemBelow(t, i, expanded)
       IN  /\ item_below # 0
           /\ ParentOf(t, i) = ParentOf(t, item_below)
           /\ t[item_below].data # 0
           /\ NodeRec(t, store, item_below).is_option_box

\* a plausible slip: any row above enables the promotion
toggle_is_valid_any_above(t, store, i, expanded, expanded_above) ==
    \/ NodeRec(t, store, i).is_option_box
    \/ /\ ~menu_is_parent_item(t, store, i, expanded)
       /\ itemAbove(t, i, expanded_above) # 0

\* ui.py 575-592: whether the toggle entry of the context menu is enabled
toggle_is_valid(t, store, i, expanded, expanded_above) ==
    \/ NodeRec(t, store, i).is_option_box
    \/ /\ ~menu_is_parent_item(t, store, i, expanded)
       /\ LET item_above == itemAbove(t, i, expanded_above)
          IN  /\ item_above # 0
              /\ ParentOf(t, i) = ParentOf(t, item_above)
              /\ t[item_above].data # 0
              /\ ~NodeRec(t, store, item_above).is_option_box

\* tree_interaction_handler.py 341-342
toggle_option_box(store, id) ==
    [k \in 1..Len(store) |->
        IF store[k].id = id
        THEN [store[k] EXCEPT !.is_option_box = ~store[k].is_option_box]
        ELSE store[k]]

\* ui.py 575-594 and tree_interaction_handler.py 331-351
ToggleOptionBox ==
    /\ Count
    /\ tree_enabled
    /\ \E i \in Nodes, expanded \in BOOLEAN, expanded_above \in BOOLEAN :
          /\ tree[i].data # 0
          /\ ~NodeRec(tree, current_menu_data, i).is_divider
          /\ expanded => HasChildren(tree, i)
          /\ expanded_above =>
                (PrevSibling(tree, i) # 0 /\ HasChildren(tree, PrevSibling(tree, i)))
          /\ IF toggle_is_valid(tree, current_menu_data, i, expanded, expanded_above)
             THEN /\ current_menu_data' = toggle_option_box(current_menu_data, tree[i].data)
                  /\ tree' = _refresh_ui_tree_and_paths(current_menu_data')
                  /\ is_dirty' = TRUE
                  /\ last' = [gesture |-> "toggle", outcome |-> "accepted",
                              source |-> tree[i].data]
             ELSE /\ last' = Done("toggle", "refused")
                  /\ UNCHANGED <<current_menu_data, tree, is_dirty>>
    /\ UNCHANGED <<current_edit_item, insertion_target_item_data, tree_enabled,
                   harness_vars>>

\* ui.py 596-614 and tree_interaction_handler.py 254-285
AddUnder ==
    /\ Count
    /\ tree_enabled
    /\ \E i \in Nodes, expanded \in BOOLEAN :
          /\ expanded => HasChildren(tree, i)
          /\ ~menu_is_parent_item(tree, current_menu_data, i, expanded)
          /\ insertion_target_item_data' =
                IF tree[i].data # 0
                THEN [set |-> TRUE, ref |-> tree[i].data, copy |-> BlankRecord]
                ELSE NoTarget
    /\ current_edit_item' = NoEdit
    /\ last' = Done("add_under", "done")
    /\ UNCHANGED <<current_menu_data, tree, is_dirty, tree_enabled, harness_vars>>

\* tree_interaction_handler.py 140-177: outcome, tree and store after the
\* user typed new_name into node i
on_tree_item_renamed(t, store, edit_item, i, new_name) ==
    LET typed == [t EXCEPT ![i].text = new_name]
        old_path == t[i].key
        parts == split(old_path)
        old_name == parts[Len(parts)]
        parent_path == join(SubSeq(parts, 1, Len(parts) - 1))
        item_data == t[i].data
    IN  IF edit_item.node # "none"
        THEN [outcome |-> "ignored", tree |-> typed, store |-> store]
        ELSE IF ~t[i].mapped
        THEN [outcome |-> "not_in_map", tree |-> typed, store |-> store]
        ELSE IF new_name = old_name
        THEN [outcome |-> "same", tree |-> typed, store |-> store]
        ELSE IF _is_name_conflict(store, new_name, parent_path, item_data)
        THEN [outcome |-> "conflict", tree |-> [typed EXCEPT ![i].text = old_name],
              store |-> store]
        ELSE LET synced == _sync_data_from_ui(typed, store)
             IN  [outcome |-> "accepted", tree |-> _refresh_ui_tree_and_paths(synced),
                  store |-> synced]

\* the user typed new_name into the folder node i
RenameAt(i, new_name) ==
    /\ IsFolderNode(tree, i)
    /\ new_name # tree[i].text
    /\ LET r == on_tree_item_renamed(tree, current_menu_data, current_edit_item,
                                     i, new_name)
       IN  /\ tree' = r.tree
           /\ current_menu_data' = r.store
           /\ is_dirty' = IF r.outcome = "accepted" THEN TRUE ELSE is_dirty
           /\ last' = Done("rename", r.outcome)

\* an inline edit of a folder node (the only nodes with ItemIsEditable)
FolderRename ==
    /\ Count
    /\ tree_enabled
    /\ \E i \in Nodes, new_name \in RenameInputs : RenameAt(i, new_name)
    /\ UNCHANGED <<current_edit_item, insertion_target_item_data, tree_enabled,
                   harness_vars>>

\* tree_interaction_handler.py 299-321: the store after "add separator" on node i
on_context_add_separator(t, store, i) ==
    LET synced == _sync_data_from_ui(t, store)
        target_data == Rec(synced, t[i].data)
        separator_data == MenuItemData(NewId(synced), separator_label,
                                       target_data.sub_menu_path, FALSE, TRUE)
    IN  InsertAfter(synced, list_index(synced, target_data), separator_data)

\* ui.py 603-610: offered on a node that wraps a record, is no divider and no owner
AddSeparator ==
    /\ Count
    /\ tree_enabled
    /\ Len(current_menu_data) < MaxItems
    /\ \E i \in Nodes, expanded \in BOOLEAN :
          /\ tree[i].data # 0
          /\ ~NodeRec(tree, current_menu_data, i).is_divider
          /\ expanded => HasChildren(tree, i)
          /\ ~menu_is_parent_item(tree, current_menu_data, i, expanded)
          /\ current_menu_data' = on_context_add_separator(tree, current_menu_data, i)
    /\ tree' = _refresh_ui_tree_and_paths(current_menu_data')
    /\ is_dirty' = TRUE
    /\ last' = Done("separator", "accepted")
    /\ UNCHANGED <<current_edit_item, insertion_target_item_data, tree_enabled,
                   harness_vars>>

\* a plausible slip: the folder's records are found by a bare string prefix
items_to_process_for_delete_bare_prefix(t, store, i) ==
    LET item_path == get_path_for_item(t, i)
    IN  IF t[i].data = 0
        THEN IF HasChildren(t, i)
             THEN {store[k] : k \in {j \in 1..Len(store) :
                        startswith(store[j].sub_menu_path, item_path)}}
             ELSE {}
        ELSE LET item_data == Rec(store, t[i].data)
             IN  IF _is_parent_item(item_data, store)
                 THEN {item_data,
                       Rec(store, _get_option_box_for_parent(item_data, store))}
                 ELSE {item_data}

\* tree_interaction_handler.py 195-231: the records the delete of node i is about
items_to_process_for_delete(t, store, i) ==
    LET item_path == get_path_for_item(t, i)
    IN  IF t[i].data = 0
        THEN IF HasChildren(t, i)
             THEN {store[k] : k \in {j \in 1..Len(store) :
                        \/ store[j].sub_menu_path = item_path
                        \/ startswith(store[j].sub_menu_path, item_path \o <<"/">>)}}
             ELSE {}
        ELSE LET item_data == Rec(store, t[i].data)
             IN  IF _is_parent_item(item_data, store)
                 THEN {item_data,
                       Rec(store, _get_option_box_for_parent(item_data, store))}
                 ELSE {item_data}

\* tree_interaction_handler.py 246-248: [d for d in store if d not in items]
on_context_delete(t, store, i) ==
    LET items == items_to_process_for_delete(t, store, i)
        keep == {k \in 1..Len(store) : \A x \in items : ~Equal(store[k], x)}
        F[k \in 0..Len(store)] ==
            IF k = 0 THEN <<>>
            ELSE IF k \in keep THEN Append(F[k - 1], store[k]) ELSE F[k - 1]
    IN  F[Len(store)]

DeleteItem ==
    /\ Count
    /\ tree_enabled
    /\ \E i \in Nodes, reply \in {"Yes", "No"} :
          IF reply = "No"
          THEN /\ last' = Done("delete", "declined")
               /\ UNCHANGED <<current_menu_data, tree, insertion_target_item_data,
                              is_dirty>>
          ELSE /\ current_menu_data' = on_context_delete(tree, current_menu_data, i)
               /\ tree' = _refresh_ui_tree_and_paths(current_menu_data')
               /\ insertion_target_item_data' =
                     Detach(insertion_target_item_data, current_menu_data,
                            current_menu_data')
               /\ is_dirty' = TRUE
               /\ last' = [gesture |-> "delete", outcome |-> "accepted",
                           source |-> tree[i].data]
    /\ UNCHANGED <<current_edit_item, tree_enabled, harness_vars>>

\* the configuration files on disk and the buttons of the shelves
FileRecord(label, path, kind) ==
    MenuItemData(0, IF kind = "divider" THEN separator_label ELSE label, path,
                 kind = "option_box", kind = "divider")

ConfigFiles ==
    {<<>>} \cup {<<FileRecord(label, <<>>, kind)>> :
                    label \in LabelInputs, kind \in {"item", "divider"}}

ShelfButtons == {<<FileRecord(<<"b">>, <<"a">>, "item")>>}

\* list.extend with objects the loader has just created
RECURSIVE extend(_, _)
extend(store, new_data) ==
    IF new_data = <<>> THEN store
    ELSE extend(Append(store, [Head(new_data) EXCEPT !.id = NewId(store)]),
                Tail(new_data))

\* file_io_handler.py 80-95
FileMerge ==
    /\ Count
    /\ \E new_data \in ConfigFiles :
          /\ Len(current_menu_data) + Len(new_data) <= MaxItems
          /\ IF new_data # <<>>
             THEN /\ current_menu_data' = extend(current_menu_data, new_data)
                  /\ tree' = _refresh_ui_tree_and_paths(current_menu_data')
                  /\ current_edit_item' = AfterRebuild(current_edit_item)
                  /\ last' = Done("merge", "accepted")
             ELSE /\ last' = Done("merge", "empty")
                  /\ UNCHANGED <<current_menu_data, tree, current_edit_item>>
    /\ UNCHANGED <<insertion_target_item_data, is_dirty, tree_enabled, harness_vars>>

\* file_io_handler.py 159-185
ImportFromShelf ==
    /\ Count
    /\ \E new_items \in ShelfButtons :
          /\ Len(current_menu_data) + Len(new_items) <= MaxItems
          /\ current_menu_data' = extend(current_menu_data, new_items)
    /\ tree' = _refresh_ui_tree_and_paths(current_menu_data')
    /\ current_edit_item' = AfterRebuild(current_edit_item)
    /\ is_dirty' = TRUE
    /\ last' = Done("shelf_import", "accepted")
    /\ UNCHANGED <<insertion_target_item_data, tree_enabled, harness_vars>>

\* file_io_handler.py 60-78
FileOpen ==
    /\ Count
    /\ \E new_data \in ConfigFiles :
          current_menu_data' = extend(<<>>, new_data)
    /\ tree' = _refresh_ui_tree_and_paths(current_menu_data')
    /\ current_edit_item' = AfterRebuild(current_edit_item)
    /\ insertion_target_item_data' =
          Detach(insertion_target_item_data, current_menu_data, <<>>)
    /\ is_dirty' = FALSE
    /\ last' = Done("open", "accepted")
    /\ UNCHANGED <<tree_enabled, harness_vars>>

\* file_io_handler.py 53-58; data_handler.py 79-99: whether the file could be
\* written is an input, save_menu_config logs the failure and returns
SaveConfig ==
    /\ Count
    /\ current_menu_data' = _sync_data_from_ui(tree, current_menu_data)
    /\ is_dirty' = FALSE
    /\ \E written \in BOOLEAN :
          last' = Done("save", IF written THEN "done" ELSE "failed")
    /\ UNCHANGED <<tree, current_edit_item, insertion_target_item_data, tree_enabled,
                   harness_vars>>

\* controller.py 102-115, 153-169: the controller after construction
Init ==
    /\ \E default_config \in ConfigFiles : current_menu_data = extend(<<>>, default_config)
    /\ tree = populate_menu_tree(current_menu_data)
    /\ current_edit_item = NoEdit
    /\ insertion_target_item_data = NoTarget
    /\ is_dirty = FALSE
    /\ tree_enabled = TRUE
    /\ last = NoLast
    /\ gestures = 0
    /\ pc = "editor"
    /\ snap = NoSnap
    /\ probe = NoProbe
    /\ host = NoHost

Next ==
    \/ AddItemClicked
    \/ DoubleClick
    \/ CancelEdit
    \/ EnterAddMode
    \/ AddUnder
    \/ FolderRename
    \/ DropGesture
    \/ ToggleOptionBox
    \/ AddSeparator
    \/ DeleteItem
    \/ FileMerge
    \/ ImportFromShelf
    \/ FileOpen
    \/ SaveConfig

Spec == Init /\ [][Next]_vars

-----------------------------------------------------------------------------
(* Round-trip harness: project, flatten, project, flatten on a list drawn  *)
(* from a bounded pool.                                                    *)

RTLabels == {<<"a">>, <<"(", "#", ")", " ", "a">>}
RTPaths == {<<>>, <<"a">>, <<"a", "/", "a">>}
RTKinds == {"item", "option_box", "divider"}

RTRecord(id, label, path, kind) ==
    MenuItemData(id, IF kind = "divider" THEN separator_label ELSE label, path,
                 kind = "option_box", kind = "divider")

RECURSIVE RTLists(_)
RTLists(n) ==
    IF n = 0 THEN {<<>>}
    ELSE LET shorter == RTLists(n - 1)
         IN  shorter \cup
             {Append(l, RTRecord(Len(l) + 1, lb, p, k)) :
                 l \in {s \in shorter : Len(s) = n - 1},
                 lb \in RTLabels, p \in RTPaths, k \in RTKinds}

InitRT ==
    /\ current_menu_data \in RTLists(MaxLen)
    /\ tree = <<>>
    /\ current_edit_item = NoEdit
    /\ insertion_target_item_data = NoTarget
    /\ is_dirty = FALSE
    /\ tree_enabled = TRUE
    /\ last = NoLast
    /\ gestures = 0
    /\ pc = "start"
    /\ snap = NoSnap
    /\ probe = NoProbe
    /\ host = NoHost

Project ==
    /\ pc \in {"start", "flat1"}
    /\ tree' = populate_menu_tree(current_menu_data)
    /\ pc' = IF pc = "start" THEN "tree1" ELSE "tree2"
    /\ snap' = IF pc = "start" THEN [snap EXCEPT !.input = current_menu_data] ELSE snap
    /\ UNCHANGED <<current_menu_data, editor_vars, probe, host>>

Flatten ==
    /\ pc \in {"tree1", "tree2"}
    /\ current_menu_data' = _sync_data_from_ui(tree, current_menu_data)
    /\ snap' = IF pc = "tree1" THEN [snap EXCEPT !.first = current_menu_data'] ELSE snap
    /\ pc' = IF pc = "tree1" THEN "flat1" ELSE "flat2"
    /\ UNCHANGED <<tree, editor_vars, probe, host>>

NextRT == Project \/ Flatten

SpecRT == InitRT /\ [][NextRT]_vars

-----------------------------------------------------------------------------
(* Validator harness: _is_name_conflict called on a list drawn from a      *)
(* bounded pool.  "t" plays Tools, "t2" Tools2, "r" Rig.                   *)

NCLabels == {<<"r">>, <<"R">>}
NCPaths == {<<>>, <<"t">>, <<"t", "/", "r">>, <<"t", "2", "/", "r">>,
            <<"t", "/", "x", "/", "r">>}
NCKinds == {"item", "option_box", "divider"}
NCProbePaths == {<<>>, <<"t">>, <<"t", "/", "x">>}

RECURSIVE NCLists(_)
NCLists(n) ==
    IF n = 0 THEN {<<>>}
    ELSE LET shorter == NCLists(n - 1)
         IN  shorter \cup
             {Append(l, MenuItemData(Len(l) + 1, lb, p, k = "option_box", k = "divider")) :
                 l \in {s \in shorter : Len(s) = n - 1},
                 lb \in NCLabels, p \in NCPaths, k \in NCKinds}

InitNC ==
    /\ current_menu_data \in NCLists(MaxProbeLen)
    /\ tree = <<>>
    /\ current_edit_item = NoEdit
    /\ insertion_target_item_data = NoTarget
    /\ is_dirty = FALSE
    /\ tree_enabled = TRUE
    /\ last = NoLast
    /\ gestures = 0
    /\ pc = "start"
    /\ snap = NoSnap
    /\ probe = NoProbe
    /\ host = NoHost

CheckName ==
    /\ pc = "start"
    /\ \E label \in NCLabels, path \in NCProbePaths,
          excluding \in 0..Len(current_menu_data) :
          probe' = [label |-> label, path |-> path, excluding |-> excluding,
                    result |-> _is_name_conflict(current_menu_data, label, path,
                                                 excluding)]
    /\ pc' = "checked"
    /\ UNCHANGED <<current_menu_data, tree, editor_vars, snap, host>>

NextNC == CheckName

SpecNC == InitNC /\ [][NextNC]_vars

-----------------------------------------------------------------------------
(* Delete harness: on_context_delete called on the tree of a list drawn    *)
(* from a bounded pool.  "t" plays Tools, "t2" Tools2, "x" a sub-folder.   *)

DelLabels == {<<"r">>, <<"s">>}
DelPaths == {<<>>, <<"t">>, <<"t", "2">>, <<"t", "/", "x">>}
DelKinds == {"item", "option_box", "divider"}

\* an option box is only drawn right after a plain item at the same path
DelFits(l, p, k) ==
    k = "option_box" =>
        /\ l # <<>>
        /\ ~l[Len(l)].is_option_box /\ ~l[Len(l)].is_divider
        /\ l[Len(l)].sub_menu_path = p

RECURSIVE DelLists(_)
DelLists(n) ==
    IF n = 0 THEN {<<>>}
    ELSE LET shorter == DelLists(n - 1)
         IN  shorter \cup
             {Append(l, RTRecord(Len(l) + 1, lb, p, k)) :
                 <<l, lb, p, k>> \in
                    {q \in {s \in shorter : Len(s) = n - 1} \X DelLabels \X DelPaths
                              \X DelKinds : DelFits(q[1], q[3], q[4])}}

InitDel ==
    /\ current_menu_data \in DelLists(MaxItems)
    /\ tree = populate_menu_tree(current_menu_data)
    /\ current_edit_item = NoEdit
    /\ insertion_target_item_data = NoTarget
    /\ is_dirty = FALSE
    /\ tree_enabled = TRUE
    /\ last = NoLast
    /\ gestures = 0
    /\ pc = "loaded"
    /\ snap = NoSnap
    /\ probe = NoProbe
    /\ host = NoHost

\* tree_interaction_handler.py 181-251 on node i, the user's reply an input
ContextDelete ==
    /\ pc = "loaded"
    /\ \E i \in Nodes, reply \in {"Yes", "No"} :
          /\ probe' = [node |-> i, data |-> tree[i].data,
                       path |-> get_path_for_item(tree, i), reply |-> reply]
          /\ IF reply = "No"
             THEN UNCHANGED <<current_menu_data, tree, is_dirty>>
             ELSE /\ current_menu_data' = on_context_delete(tree, current_menu_data, i)
                  /\ tree' = _refresh_ui_tree_and_paths(current_menu_data')
                  /\ is_dirty' = TRUE
    /\ snap' = [snap EXCEPT !.input = current_menu_data]
    /\ pc' = "deleted"
    /\ UNCHANGED <<current_edit_item, insertion_target_item_data, tree_enabled,
                   last, gestures, host>>

NextDel == ContextDelete

SpecDel == InitDel /\ [][NextDel]_vars

-----------------------------------------------------------------------------
(* menu_generator.py: the build engine.  The host's menu API is recorded   *)
(* as the sequence of calls it receives; every created object gets a fresh *)
(* handle.  A call is [op, label, parent, handle, optionBox, item], item   *)
(* being the identity of the record in work when the call was made.        *)

gMainWindow == 0

\* the local variable `parent` before its first assignment
UnboundParent == [bound |-> FALSE, handle |-> 0]
BoundParent(h) == [bound |-> TRUE, handle |-> h]

\* str.strip()
RECURSIVE strip(_)
strip(s) ==
    IF s = <<>> THEN s
    ELSE IF Head(s) = " " THEN strip(Tail(s))
    ELSE IF s[Len(s)] = " " THEN strip(SubSeq(s, 1, Len(s) - 1))
    ELSE s

\* menu_generator.py 145
separator_labels ==
    {<<"-">>, <<"-", "-", "-">>, <<"s", "e", "p", "a", "r", "a", "t", "o", "r">>}

\* sorted(data, key=lambda x: x.order): stable
RECURSIVE sorted(_)
sorted(data) ==
    IF data = <<>> THEN <<>>
    ELSE LET least == Min({data[i].order : i \in 1..Len(data)})
             first == Min({i \in 1..Len(data) : data[i].order = least})
         IN  <<data[first]>> \o
             sorted(SubSeq(data, 1, first - 1) \o SubSeq(data, first + 1, Len(data)))

\* the state of one run of build_from_config
NoBuild ==
    [calls |-> <<>>, parent_menu_cache |-> {}, optionVar |-> <<>>,
     parent |-> UnboundParent, raised |-> FALSE]

CacheHas(cache, key) == \E e \in cache : e.key = key
CacheGet(cache, key) == (CHOOSE e \in cache : e.key = key).handle

\* the handle the next created object gets
NewHandle(b) == Len(b.calls) + 1

HostCall(b, op, label, parent, option_box, item) ==
    [op |-> op, label |-> label, parent |-> parent, handle |-> NewHandle(b),
     optionBox |-> option_box, item |-> item]

\* menu_generator.py 130-143: walk / extend the cache along the path of item
RECURSIVE resolve_menu_parent(_, _, _, _, _)
resolve_menu_parent(b, item, path_parts, i, full_path_key) ==
    IF i > Len(path_parts) THEN b
    ELSE LET part == path_parts[i]
             key == join_path(full_path_key, part)
         IN  IF CacheHas(b.parent_menu_cache, key)
             THEN resolve_menu_parent(
                      [b EXCEPT !.parent = BoundParent(CacheGet(b.parent_menu_cache, key))],
                      item, path_parts, i + 1, key)
             ELSE LET new_menu_parent == NewHandle(b)
                      call == HostCall(b, IF i = 1 THEN "menu" ELSE "subMenu", part,
                                       b.parent.handle, FALSE, item.id)
                  IN  resolve_menu_parent(
                          [b EXCEPT !.calls = Append(@, call),
                                    !.optionVar = IF i = 1 THEN Append(@, new_menu_parent)
                                                  ELSE @,
                                    !.parent_menu_cache =
                                        @ \cup {[key |-> key, handle |-> new_menu_parent]},
                                    !.parent = BoundParent(new_menu_parent)],
                          item, path_parts, i + 1, key)

\* menu_generator.py 118-163: one turn of the loop
build_item(b, item) ==
    IF b.raised THEN b
    ELSE IF item.is_divider
    THEN IF b.parent.bound
         THEN [b EXCEPT !.calls = Append(@, HostCall(b, "divider", <<>>, b.parent.handle,
                                                     FALSE, item.id))]
         ELSE [b EXCEPT !.raised = TRUE]
    ELSE LET at_root == [b EXCEPT !.parent = BoundParent(gMainWindow)]
             r == IF item.sub_menu_path # <<>>
                  THEN resolve_menu_parent(at_root, item, split(item.sub_menu_path), 1, <<>>)
                  ELSE at_root
         IN  IF strip(item.menu_label) \in separator_labels
             THEN [r EXCEPT !.calls = Append(@, HostCall(r, "divider", <<>>, r.parent.handle,
                                                         FALSE, item.id))]
             ELSE [r EXCEPT !.calls = Append(@, HostCall(r, "leaf", item.menu_label,
                                                         r.parent.handle,
                                                         item.is_option_box, item.id))]

\* menu_generator.py 92-165
build_from_config(data) ==
    LET sorted_data == sorted(data)
        B[k \in 0..Len(sorted_data)] ==
            IF k = 0 THEN NoBuild ELSE build_item(B[k - 1], sorted_data[k])
    IN  B[Len(sorted_data)]

-----------------------------------------------------------------------------
(* Build harness: build_from_config called on a list drawn from a bounded  *)
(* pool.  "t" and "u" play top-level menus, "t/x" a submenu.               *)

BuildLabels == {<<"a">>, <<"-", "-", "-">>}
BuildPaths == {<<>>, <<"t">>, <<"t", "/", "x">>, <<"u">>}
BuildKinds == {"item", "option_box", "divider"}
BuildOrders == {10, 20}

RECURSIVE BuildLists(_)
BuildLists(n) ==
    IF n = 0 THEN {<<>>}
    ELSE LET shorter == BuildLists(n - 1)
         IN  shorter \cup
             {Append(l, [RTRecord(Len(l) + 1, lb, p, k) EXCEPT !.order = o]) :
                 <<l, lb, p, k, o>> \in
                    {s \in shorter : Len(s) = n - 1} \X BuildLabels \X BuildPaths
                        \X BuildKinds \X BuildOrders}

InitBuild ==
    /\ current_menu_data \in BuildLists(MaxItems)
    /\ tree = <<>>
    /\ current_edit_item = NoEdit
    /\ insertion_target_item_data = NoTarget
    /\ is_dirty = FALSE
    /\ tree_enabled = TRUE
    /\ last = NoLast
    /\ gestures = 0
    /\ pc = "to_build"
    /\ snap = NoSnap
    /\ probe = NoBuild
    /\ host = NoHost

BuildFromConfig ==
    /\ pc = "to_build"
    /\ probe' = build_from_config(current_menu_data)
    /\ snap' = [snap EXCEPT !.input = sorted(current_menu_data)]
    /\ pc' = "built"
    /\ UNCHANGED <<current_menu_data, tree, editor_vars, host>>

NextBuild == BuildFromConfig

SpecBuild == InitBuild /\ [][NextBuild]_vars

-----------------------------------------------------------------------------
(* The host across build requests.  An object of the host is named by the  *)
(* build that created it and the handle it got in that build; optionVar    *)
(* is the list Maya keeps under menubuilder_created_menus.                 *)

MaxBuilds == 3
HostMaxItems == 2

\* object o is object r or lies below it
RECURSIVE IsUnder(_, _, _)
IsUnder(objects, o, r) ==
    /\ o.build = r.build
    /\ IF o.handle = r.handle THEN TRUE
       ELSE IF o.parent = gMainWindow THEN FALSE
       ELSE \E q \in objects :
               /\ q.build = o.build /\ q.handle = o.parent /\ q.handle < o.handle
               /\ IsUnder(objects, q, r)

\* menu_generator.py 27-49: deleteUI of every registered menu that exists
\* (a menu goes with everything below it), then the optionVar is removed
clear_existing_menus(h) ==
    IF h.optionVar = <<>> THEN h
    ELSE LET created_menus ==
                 {r \in h.objects :
                     /\ r.op = "menu"
                     /\ \E n \in 1..Len(h.optionVar) :
                           h.optionVar[n] = [build |-> r.build, handle |-> r.handle]}
         IN  [h EXCEPT !.objects = {o \in @ : \A r \in created_menus :
                                                  ~IsUnder(h.objects, o, r)},
                       !.optionVar = <<>>]

\* a plausible slip: the cache is kept from one run to the next
start_build_keeps_cache(previous) ==
    [NoBuild EXCEPT !.parent_menu_cache = previous.parent_menu_cache]

\* menu_generator.py 114-116: a run starts with locals of its own, whatever
\* the run before it left
start_build(previous) == NoBuild

\* menu_generator.py 92-165, run after the run `previous`
build_from_config_after(previous, data) ==
    LET sorted_data == sorted(data)
        B[k \in 0..Len(sorted_data)] ==
            IF k = 0 THEN start_build(previous) ELSE build_item(B[k - 1], sorted_data[k])
    IN  B[Len(sorted_data)]

\* the host after the calls of run b
HostApply(h, b) ==
    LET n == h.builds + 1
    IN  [objects |-> h.objects \cup
                        {[build |-> n, handle |-> b.calls[c].handle,
                          parent |-> b.calls[c].parent, op |-> b.calls[c].op,
                          label |-> b.calls[c].label,
                          optionBox |-> b.calls[c].optionBox] : c \in 1..Len(b.calls)},
         optionVar |-> h.optionVar \o
                          [k \in 1..Len(b.optionVar) |->
                              [build |-> n, handle |-> b.optionVar[k]]],
         builds |-> n]

RECURSIVE HostLists(_)
HostLists(n) ==
    IF n = 0 THEN {<<>>}
    ELSE LET shorter == HostLists(n - 1)
         IN  shorter \cup
             {Append(l, [RTRecord(Len(l) + 1, lb, p, k) EXCEPT !.order = o]) :
                 <<l, lb, p, k, o>> \in
                    {s \in shorter : Len(s) = n - 1} \X BuildLabels \X BuildPaths
                        \X BuildKinds \X BuildOrders}

\* the editor right after it loaded a configuration, the host without menus
InitHost ==
    /\ current_menu_data \in HostLists(HostMaxItems)
    /\ tree = populate_menu_tree(current_menu_data)
    /\ current_edit_item = NoEdit
    /\ insertion_target_item_data = NoTarget
    /\ is_dirty = FALSE
    /\ tree_enabled = TRUE
    /\ last = NoLast
    /\ gestures = 0
    /\ pc = "idle"
    /\ snap = NoSnap
    /\ probe = NoBuild
    /\ host = NoHost

\* controller.py 306-321
on_build_menu_clicked ==
    /\ pc \in {"idle", "built"}
    /\ host.builds < MaxBuilds
    /\ current_menu_data' = _sync_data_from_ui(tree, current_menu_data)
    /\ probe' = build_from_config_after(probe, current_menu_data')
    /\ host' = HostApply(clear_existing_menus(host), probe')
    /\ snap' = [input |-> current_menu_data', first |-> snap.input,
                calls |-> probe.calls]
    /\ last' = Done("build", "done")
    /\ pc' = "built"
    /\ UNCHANGED <<tree, current_edit_item, insertion_target_item_data, is_dirty,
                   tree_enabled, gestures>>

\* setup_maya_menu.py 38-46: the list is built as the loader returned it
build_menus_on_startup ==
    /\ pc \in {"idle", "built"}
    /\ host.builds < MaxBuilds
    /\ current_menu_data # <<>>
    /\ probe' = build_from_config_after(probe, current_menu_data)
    /\ host' = HostApply(clear_existing_menus(host), probe')
    /\ snap' = [input |-> current_menu_data, first |-> snap.input,
                calls |-> probe.calls]
    /\ last' = Done("startup", "done")
    /\ pc' = "built"
    /\ UNCHANGED <<current_menu_data, tree, current_edit_item,
                   insertion_target_item_data, is_dirty, tree_enabled, gestures>>

NextHost == on_build_menu_clicked \/ build_menus_on_startup \/ FileOpen

SpecHost == InitHost /\ [][NextHost]_vars

-----------------------------------------------------------------------------
(* Persistence: dto.py to_dict / from_dict and data_handler.py.  A JSON     *)
(* value is [json |-> "object", obj |-> a record of its members,           *)
(* well_typed |-> whether the members have the types dto.py declares], or   *)
(* a number; a file is missing, malformed, or holds one JSON value.  An     *)
(* item of the editor is a record of the attributes its __dict__ holds.     *)

\* dto.py 22-29: the parameters the generated __init__ accepts
DeclaredFields ==
    {"sub_menu_path", "order", "function_str", "menu_label", "module_path",
     "icon_path", "is_option_box"}

\* the declared fields the model carries, with their defaults
DefaultFields ==
    [sub_menu_path |-> <<>>, order |-> 10, menu_label |-> <<>>, is_option_box |-> FALSE]

\* dto.py 37-39: self.__dict__, every attribute the instance holds
to_dict(item) ==
    [json |-> "object", obj |-> [k \in DOMAIN item \ {"id"} |-> item[k]],
     well_typed |-> TRUE]

\* dto.py 31-35: cls(**data); TypeError for a value that is no mapping and
\* for a key that is no parameter of __init__, defaults for absent keys
from_dict(data, id) ==
    IF data.json # "object" THEN [ok |-> FALSE, item |-> DefaultFields]
    ELSE IF ~(DOMAIN data.obj \subseteq DeclaredFields)
    THEN [ok |-> FALSE, item |-> DefaultFields]
    ELSE [ok |-> TRUE,
          item |-> [k \in DOMAIN DefaultFields \cup {"id"} |->
                       IF k = "id" THEN id
                       ELSE IF k \in DOMAIN data.obj THEN data.obj[k]
                       ELSE DefaultFields[k]]]

MissingFile == [kind |-> "missing", value |-> [json |-> "number"]]
MalformedFile == [kind |-> "malformed", value |-> [json |-> "number"]]
JsonFile(value) == [kind |-> "json", value |-> value]
JsonArray(elements) == [json |-> "array", elements |-> elements]

\* data_handler.py 45-77: every failure ends in `return []`
load_menu_config(file) ==
    IF file.kind = "missing" THEN <<>>
    ELSE IF file.kind = "malformed" THEN <<>>
    ELSE IF file.value.json # "array" THEN <<>>
    ELSE LET json_data == file.value.elements
         IN  IF \E k \in 1..Len(json_data) : ~from_dict(json_data[k], k).ok
             THEN <<>>
             ELSE [k \in 1..Len(json_data) |-> from_dict(json_data[k], k).item]

\* data_handler.py 79-99
save_menu_config(data) ==
    JsonFile(JsonArray([k \in 1..Len(data) |-> to_dict(data[k])]))

\* the items the persistence harness saves: as loaded, with command_type
\* attached by an edit commit (editor_panel_handler.py 118), or created as
\* a divider (tree_interaction_handler.py 301-304)
PlainItem(id, path, ob) ==
    [id |-> id, sub_menu_path |-> path, order |-> 10 * id, menu_label |-> <<"a">>,
     is_option_box |-> ob]
EditedItem(id, path, command_type) ==
    [id |-> id, sub_menu_path |-> path, order |-> 10 * id, menu_label |-> <<"a">>,
     is_option_box |-> FALSE, command_type |-> command_type]
DividerItem(id, path) ==
    [id |-> id, sub_menu_path |-> path, order |-> 10 * id, menu_label |-> separator_label,
     is_option_box |-> FALSE, is_divider |-> TRUE]

FilePaths == {<<>>, <<"t">>}
MaxFileLen == 2

HeldItems(id) ==
    {PlainItem(id, p, ob) : p \in FilePaths, ob \in BOOLEAN}
    \cup {EditedItem(id, p, c) : p \in FilePaths, c \in {"python", "mel"}}
    \cup {DividerItem(id, p) : p \in FilePaths}

RECURSIVE HeldLists(_)
HeldLists(n) ==
    IF n = 0 THEN {<<>>}
    ELSE HeldLists(n - 1) \cup
         {Append(l, x) : <<l, x>> \in {s \in HeldLists(n - 1) : Len(s) = n - 1} \X HeldItems(n)}

\* the JSON values a file on disk may hold in its array
JsonElements ==
    {to_dict(PlainItem(1, p, FALSE)) : p \in FilePaths}
    \cup {[json |-> "number"],
          [json |-> "object", obj |-> [menu_label |-> <<"a">>, is_dockable |-> FALSE],
           well_typed |-> TRUE],
          [json |-> "object", obj |-> [menu_label |-> <<"a">>, order |-> <<"1", "0">>],
           well_typed |-> FALSE],
          [json |-> "object", obj |-> [menu_label |-> <<"a">>], well_typed |-> TRUE]}

RECURSIVE JsonArrays(_)
JsonArrays(n) ==
    IF n = 0 THEN {<<>>}
    ELSE JsonArrays(n - 1) \cup
         {Append(l, x) : <<l, x>> \in {s \in JsonArrays(n - 1) : Len(s) = n - 1} \X JsonElements}

DiskFiles ==
    {MissingFile, MalformedFile, JsonFile([json |-> "number"])}
    \cup {JsonFile(JsonArray(a)) : a \in JsonArrays(MaxFileLen)}

InitFile ==
    /\ current_menu_data \in HeldLists(MaxFileLen)
    /\ tree = <<>>
    /\ current_edit_item = NoEdit
    /\ insertion_target_item_data = NoTarget
    /\ is_dirty = FALSE
    /\ tree_enabled = TRUE
    /\ last = NoLast
    /\ gestures = 0
    /\ pc = "file_idle"
    /\ snap \in {[input |-> <<>>, first |-> <<>>, file |-> f] : f \in DiskFiles}
    /\ probe = NoProbe
    /\ host = NoHost

\* DataHandler.save_menu_config(config_name, current_menu_data)
SaveMenuConfig ==
    /\ pc = "file_idle"
    /\ snap' = [snap EXCEPT !.input = current_menu_data,
                            !.file = save_menu_config(current_menu_data)]
    /\ pc' = "saved"
    /\ UNCHANGED <<current_menu_data, tree, editor_vars, probe, host>>

\* current_menu_data = DataHandler.load_menu_config(config_name)
LoadMenuConfig ==
    /\ pc \in {"file_idle", "saved"}
    /\ current_menu_data' = load_menu_config(snap.file)
    /\ probe' = [raised |-> FALSE, returned |-> current_menu_data']
    /\ pc' = IF pc = "saved" THEN "reloaded" ELSE "loaded"
    /\ UNCHANGED <<tree, editor_vars, snap, host>>

NextFile == SaveMenuConfig \/ LoadMenuConfig

SpecFile == InitFile /\ [][NextFile]_vars

-----------------------------------------------------------------------------
(* Renaming a folder, on a tree as loaded or after the drag of a folder    *)

MaxRenameLen == 4
RenamePaths == {<<>>, <<"a">>, <<"b">>}
RenameNames == RenameInputs \cup {<<"c">>}
RenameLabels == LabelInputs \cup {<<"d">>}

RECURSIVE RenameLists(_)
RenameLists(n) ==
    IF n = 0 THEN {<<>>}
    ELSE LET shorter == RenameLists(n - 1)
         IN  shorter \cup
             {Append(l, RTRecord(Len(l) + 1, lb, p, "item")) :
                 <<l, lb, p>> \in {s \in shorter : Len(s) = n - 1}
                                    \X RenameLabels \X RenamePaths}

\* controller.py 153-169: a configuration has been loaded and is displayed
InitRename ==
    /\ current_menu_data \in RenameLists(MaxRenameLen)
    /\ tree = populate_menu_tree(current_menu_data)
    /\ current_edit_item = NoEdit
    /\ insertion_target_item_data = NoTarget
    /\ is_dirty = FALSE
    /\ tree_enabled = TRUE
    /\ last = NoLast
    /\ gestures = 0
    /\ pc = "displayed"
    /\ snap = NoSnap
    /\ probe = NoProbe
    /\ host = NoHost

\* the user drags a folder node
DragFolder ==
    /\ pc = "displayed"
    /\ \E source \in Nodes, target \in 0..Len(tree), indicator \in Indicators :
          /\ IsFolderNode(tree, source)
          /\ DropAt(source, target, indicator, FALSE)
    /\ pc' = "dragged"
    /\ UNCHANGED <<current_edit_item, insertion_target_item_data, tree_enabled,
                   gestures, snap, probe, host>>

\* the user renames a folder node
RenameFolder ==
    /\ pc \in {"displayed", "dragged"}
    /\ \E i \in Nodes, new_name \in RenameNames : RenameAt(i, new_name)
    /\ pc' = "renamed"
    /\ UNCHANGED <<current_edit_item, insertion_target_item_data, tree_enabled,
                   gestures, snap, probe, host>>

NextRename == DragFolder \/ RenameFolder

SpecRename == InitRename /\ [][NextRename]_vars

-----------------------------------------------------------------------------
(* Closing the main window                                                 *)

MaxCloseLen == 2
Replies == {"Save", "Discard", "Cancel"}

\* a plausible slip: the close goes through whatever the answer
closeEvent_ignores_cancel(dirty, reply) ==
    IF dirty
    THEN [prompted |-> TRUE, save |-> reply = "Save", accepted |-> TRUE]
    ELSE [prompted |-> FALSE, save |-> FALSE, accepted |-> TRUE]

\* ui.py 737-766: what closeEvent does for the user's answer to the question
closeEvent(dirty, reply) ==
    IF dirty
    THEN [prompted |-> TRUE, save |-> reply = "Save",
          accepted |-> reply \in {"Save", "Discard"}]
    ELSE [prompted |-> FALSE, save |-> FALSE, accepted |-> TRUE]

\* the editor with a configuration on display, edited or not
InitClose ==
    /\ current_menu_data \in RenameLists(MaxCloseLen)
    /\ tree = populate_menu_tree(current_menu_data)
    /\ current_edit_item = NoEdit
    /\ insertion_target_item_data = NoTarget
    /\ is_dirty \in BOOLEAN
    /\ tree_enabled = TRUE
    /\ last = NoLast
    /\ gestures = 0
    /\ pc = "displayed"
    /\ snap = NoSnap
    /\ probe = [prompted |-> FALSE, save |-> FALSE, accepted |-> FALSE, reply |-> "none"]
    /\ host = NoHost

\* file_io_handler.py 45-51 and ui.py 737-766: a request to close the window
CloseRequest ==
    /\ pc \in {"displayed", "dragged"}
    /\ \E reply \in Replies, written \in BOOLEAN :
          LET e == closeEvent(is_dirty, reply)
          IN  /\ probe' = [prompted |-> e.prompted, save |-> e.save,
                           accepted |-> e.accepted,
                           reply |-> IF e.prompted THEN reply ELSE "none"]
              /\ IF e.save
                 THEN /\ current_menu_data' = _sync_data_from_ui(tree, current_menu_data)
                      /\ is_dirty' = FALSE
                      /\ last' = Done("close", IF written THEN "done" ELSE "failed")
                 ELSE /\ last' = Done("close", "none")
                      /\ UNCHANGED <<current_menu_data, is_dirty>>
              /\ pc' = IF e.accepted THEN "closed" ELSE pc
    /\ snap' = [input |-> current_menu_data, first |-> snap.first]
    /\ UNCHANGED <<tree, current_edit_item, insertion_target_item_data, tree_enabled,
                   gestures, host>>

NextClose == DragFolder \/ CloseRequest

SpecClose == InitClose /\ [][NextClose]_vars

-----------------------------------------------------------------------------
(* The package entry points show() and reload_all() (src/__init__.py).     *)
(* probe is the package: instance is the global of line 23 (0 is None, k   *)
(* the k-th controller constructed), controllers every controller built so *)
(* far with the state of its window.                                       *)

MaxControllers == 3
MaxCalls == 6
CleanupSteps == {"none", "clean_up", "close", "deleteLater"}

\* controller.py 102-112 and ui.py 70-80: the state before _connect_signals
NewController ==
    [signals_connected |-> FALSE, connections |-> 0, ui |-> "hidden",
     filter |-> TRUE, is_dirty |-> FALSE]

\* controller.py 117-151
_connect_signals(c) ==
    IF c.signals_connected
    THEN c
    ELSE [c EXCEPT !.connections = @ + 1, !.signals_connected = TRUE]

\* controller.py 102-115
MenuBuilderController == _connect_signals(NewController)

\* controller.py 171-178: an error of ui.show() is caught and logged
show_ui(c) == IF c.ui = "deleted" THEN c ELSE [c EXCEPT !.ui = "shown"]

show_constructs_anew(pkg, constructed) ==
    LET cs == Append(pkg.controllers, show_ui(MenuBuilderController))
    IN  IF constructed
        THEN [pkg EXCEPT !.controllers = cs, !.instance = Len(cs)]
        ELSE pkg

\* __init__.py 105-119; constructed is FALSE when the constructor raises
show(pkg, constructed) ==
    IF pkg.instance = 0
    THEN LET cs == Append(pkg.controllers, show_ui(MenuBuilderController))
         IN  IF constructed
             THEN [pkg EXCEPT !.controllers = cs, !.instance = Len(cs)]
             ELSE pkg
    ELSE [pkg EXCEPT !.controllers[pkg.instance] = show_ui(@)]

\* __init__.py 35-37: clean_up, close, deleteLater, left at the statement that
\* raises; close() delivers closeEvent (ui.py 737-766)
clean_old_ui(c, raised, reply) ==
    LET e == closeEvent(c.is_dirty, reply)
        c1 == [c EXCEPT !.filter = FALSE]
        c2 == [c1 EXCEPT !.is_dirty = IF e.save THEN FALSE ELSE @,
                         !.ui = IF e.accepted THEN "hidden" ELSE @]
        c3 == [c2 EXCEPT !.ui = "deleted"]
    IN  CASE raised = "clean_up" -> c
          [] raised = "close" -> c1
          [] raised = "deleteLater" -> c2
          [] OTHER -> c3

reload_all_clears_in_try(pkg, raised, reply) ==
    IF pkg.instance = 0
    THEN pkg
    ELSE [pkg EXCEPT !.controllers[pkg.instance] = clean_old_ui(@, raised, reply),
                     !.instance = IF raised = "none" THEN 0 ELSE @]

\* __init__.py 25-42: the assignment of None is in the finally clause
reload_all(pkg, raised, reply) ==
    IF pkg.instance = 0
    THEN pkg
    ELSE [pkg EXCEPT !.controllers[pkg.instance] = clean_old_ui(@, raised, reply),
                     !.instance = 0]

InitPkg ==
    /\ current_menu_data = <<>>
    /\ tree = <<>>
    /\ current_edit_item = NoEdit
    /\ insertion_target_item_data = NoTarget
    /\ is_dirty = FALSE
    /\ tree_enabled = TRUE
    /\ last = NoLast
    /\ gestures = 0
    /\ pc = "package"
    /\ snap = NoSnap
    /\ probe = [instance |-> 0, controllers |-> <<>>]
    /\ host = NoHost

PkgCall == pc = "package" /\ gestures < MaxCalls /\ gestures' = gestures + 1

PkgRest ==
    UNCHANGED <<current_menu_data, tree, current_edit_item, insertion_target_item_data,
                is_dirty, tree_enabled, pc, snap, host>>

\* a call of menubuilder.show()
Show ==
    /\ PkgCall
    /\ \E constructed \in BOOLEAN :
          /\ (probe.instance = 0 /\ constructed) => Len(probe.controllers) < MaxControllers
          /\ probe' = show(probe, constructed)
          /\ last' = Done("show", IF Len(probe'.controllers) > Len(probe.controllers)
                                  THEN "constructed"
                                  ELSE IF probe.instance = 0 THEN "raised" ELSE "reshown")
    /\ PkgRest

\* a call of menubuilder.reload_all()
ReloadAll ==
    /\ PkgCall
    /\ \E raised \in CleanupSteps, reply \in Replies :
          /\ probe' = reload_all(probe, raised, reply)
          /\ last' = Done("reload_all", IF probe.instance = 0 THEN "none" ELSE raised)
    /\ PkgRest

\* a gesture in the window of the package's controller that calls set_dirty(True)
EditInWindow ==
    /\ PkgCall
    /\ probe.instance # 0
    /\ probe.controllers[probe.instance].ui = "shown"
    /\ probe' = [probe EXCEPT !.controllers[probe.instance].is_dirty = TRUE]
    /\ last' = Done("edit", "done")
    /\ PkgRest

\* ui.py 737-766: the user closes the window of the package's controller
CloseWindow ==
    /\ PkgCall
    /\ probe.instance # 0
    /\ probe.controllers[probe.instance].ui = "shown"
    /\ \E reply \in Replies :
          LET e == closeEvent(probe.controllers[probe.instance].is_dirty, reply)
          IN  probe' = [probe EXCEPT
                  !.controllers[probe.instance].is_dirty = IF e.save THEN FALSE ELSE @,
                  !.controllers[probe.instance].ui = IF e.accepted THEN "hidden" ELSE @]
    /\ last' = Done("close", "none")
    /\ PkgRest

NextPkg == Show \/ ReloadAll \/ EditInWindow \/ CloseWindow

SpecPkg == InitPkg /\ [][NextPkg]_vars

-----------------------------------------------------------------------------
(* The rename handler step by step, with the signal state of the tree view *)
(* (decorators.py 29-55, ui.py 356-406). probe.blockSignals is the flag    *)
(* QObject.blockSignals sets: one boolean per widget, not a counter.       *)

MaxSigLen == 2
MaxRenames == 2

\* QObject.blockSignals(b) as called at decorators.py 46, 50 and ui.py 356, 406
blockSignals(flag, b) == b

\* QTreeWidget emits itemChanged for a programmatic change of an item exactly
\* when its signals are not blocked
emits(flag) == ~flag

\* ui.py 356-406: the flag after populate_menu_tree has run
populate_menu_tree_signals(flag) == blockSignals(blockSignals(flag, TRUE), FALSE)

InitSig ==
    /\ current_menu_data \in RenameLists(MaxSigLen)
    /\ tree = populate_menu_tree(current_menu_data)
    /\ current_edit_item = NoEdit
    /\ insertion_target_item_data = NoTarget
    /\ is_dirty = FALSE
    /\ tree_enabled = TRUE
    /\ last = NoLast
    /\ gestures = 0
    /\ pc = "idle"
    /\ snap = NoSnap
    /\ probe = [blockSignals |-> FALSE, item |-> 0, text |-> <<>>, entered |-> 0]
    /\ host = NoHost

SigRest ==
    UNCHANGED <<current_edit_item, insertion_target_item_data, tree_enabled, snap, host>>

\* decorators.py 37-47: the user has typed a new name into a folder node,
\* itemChanged is delivered and the wrapper blocks the signals of the tree
WrapperEnter ==
    /\ pc = "idle"
    /\ gestures < MaxRenames
    /\ emits(probe.blockSignals)
    /\ \E i \in Nodes, new_name \in RenameNames :
          /\ IsFolderNode(tree, i)
          /\ new_name # tree[i].text
          /\ probe' = [blockSignals |-> blockSignals(probe.blockSignals, TRUE),
                       item |-> i, text |-> new_name, entered |-> 1]
    /\ gestures' = gestures + 1
    /\ pc' = "wrapped"
    /\ UNCHANGED <<current_menu_data, tree, is_dirty, last>>
    /\ SigRest

\* tree_interaction_handler.py 140-176: the body up to and including the
\* rebuild of the tree; raised is an exception before any change
HandlerBody ==
    /\ pc = "wrapped"
    /\ \E raised \in BOOLEAN :
          IF raised
          THEN /\ last' = Done("rename", "raised")
               /\ pc' = "finally"
               /\ UNCHANGED <<current_menu_data, tree, is_dirty, probe>>
          ELSE /\ RenameAt(probe.item, probe.text)
               /\ pc' = IF last'.outcome = "accepted" THEN "rebuilt" ELSE "finally"
               /\ probe' =
                    CASE last'.outcome = "accepted" ->
                           [probe EXCEPT !.blockSignals = populate_menu_tree_signals(@)]
                      [] last'.outcome = "conflict" ->
                           [probe EXCEPT !.entered =
                                IF emits(probe.blockSignals) THEN @ + 1 ELSE @]
                      [] OTHER -> probe
    /\ UNCHANGED gestures
    /\ SigRest

\* tree_interaction_handler.py 177: set_expansion_state after the rebuild
RestoreExpansion ==
    /\ pc = "rebuilt"
    /\ pc' = "finally"
    /\ UNCHANGED <<current_menu_data, tree, is_dirty, last, gestures, probe>>
    /\ SigRest

\* decorators.py 49-51: the finally clause of the wrapper
WrapperExit ==
    /\ pc = "finally"
    /\ probe' = [probe EXCEPT !.blockSignals = blockSignals(@, FALSE)]
    /\ pc' = "idle"
    /\ UNCHANGED <<current_menu_data, tree, is_dirty, last, gestures>>
    /\ SigRest

NextSig == WrapperEnter \/ HandlerBody \/ RestoreExpansion \/ WrapperExit

SpecSig == InitSig /\ [][NextSig]_vars

-----------------------------------------------------------------------------
(* Claims on the round trip *)

(* C1: one round trip is a fixed point: the list after the second
   project+flatten equals the list after the first, record for record
   (same order, same path, same order value). *)
C1_RoundTripFixedPoint == pc = "flat2" => current_menu_data = snap.first

Occurrences(store, id) == Cardinality({i \in 1..Len(store) : store[i].id = id})

(* C2: flatten(project(L)) holds every record of L exactly once, by
   identity, and no other record. *)
C2_SameRecords ==
    pc = "flat1" =>
        /\ Len(current_menu_data) = Len(snap.input)
        /\ \A id \in Ids(snap.input) : Occurrences(current_menu_data, id) = 1
        /\ Ids(current_menu_data) \subseteq Ids(snap.input)

\* a record sits under a node that wraps another record, and the flatten kept both
C2_Witness ==
    /\ pc = "flat1"
    /\ Len(current_menu_data) = MaxLen
    /\ \E j \in 1..Len(tree) : ParentOf(tree, j) # 0 /\ tree[ParentOf(tree, j)].data # 0
    /\ \E j \in 1..Len(tree) : tree[j].data = 0

-----------------------------------------------------------------------------
(* Claims on the validator *)

Segments(path) == IF path = <<>> THEN <<>> ELSE split(path)

IsProperSegmentPrefix(p, q) ==
    /\ Len(Segments(p)) < Len(Segments(q))
    /\ SubSeq(Segments(q), 1, Len(Segments(p))) = Segments(p)

\* some record lies below P and the segment right after P is the label, ignoring case
VirtualFolderMatch(store, label, P) ==
    \E i \in 1..Len(store) :
        /\ IsProperSegmentPrefix(P, store[i].sub_menu_path)
        /\ lower(Segments(store[i].sub_menu_path)[Len(Segments(P)) + 1]) = lower(label)

\* some record other than `excluding` is at P with the label, ignoring case
DirectMatch(store, label, P, excluding) ==
    \E i \in 1..Len(store) :
        /\ store[i].id # excluding
        /\ store[i].sub_menu_path = P
        /\ lower(store[i].menu_label) = lower(label)

(* C7: a record below P whose segment right after P is the label (ignoring
   case) makes the check report a conflict; without a direct sibling of that
   name, a reported conflict always comes from such a record, so a shared
   string prefix or a name two levels down does not cause one. *)
C7_VirtualFolderConflict ==
    pc = "checked" =>
        /\ VirtualFolderMatch(current_menu_data, probe.label, probe.path) => probe.result
        /\ (probe.result /\ ~DirectMatch(current_menu_data, probe.label, probe.path,
                                         probe.excluding))
              => VirtualFolderMatch(current_menu_data, probe.label, probe.path)

\* ("r", "t") against a record at "t/r": reported
C7_Witness ==
    /\ pc = "checked"
    /\ probe.label = <<"r">> /\ probe.path = <<"t">>
    /\ \E i \in 1..Len(current_menu_data) :
          current_menu_data[i].sub_menu_path = <<"t", "/", "r">>
    /\ \E i \in 1..Len(current_menu_data) :
          current_menu_data[i].sub_menu_path = <<"t", "2", "/", "r">>
    /\ probe.result

(* C8: a record other than `excluding` at exactly P with the label (ignoring
   case) makes the check report a conflict, and the record passed as
   `excluding` is never counted: when it is the only record the label could
   collide with, no conflict is reported. *)
C8_DirectSiblingConflict ==
    pc = "checked" =>
        /\ DirectMatch(current_menu_data, probe.label, probe.path, probe.excluding)
              => probe.result
        /\ (/\ ~DirectMatch(current_menu_data, probe.label, probe.path, probe.excluding)
            /\ ~VirtualFolderMatch(current_menu_data, probe.label, probe.path))
              => ~probe.result

\* an item re-committed with its own label and path: not a conflict
C8_Witness ==
    /\ pc = "checked"
    /\ probe.excluding # 0
    /\ Rec(current_menu_data, probe.excluding).sub_menu_path = probe.path
    /\ Rec(current_menu_data, probe.excluding).menu_label = probe.label
    /\ Len(current_menu_data) = 2
    /\ ~probe.result

\* some record other than `excluding`, neither divider nor option box, is at P with the label
CountedDirectMatch(store, label, P, excluding) ==
    \E i \in 1..Len(store) :
        /\ store[i].id # excluding
        /\ ~store[i].is_divider /\ ~store[i].is_option_box
        /\ store[i].sub_menu_path = P
        /\ lower(store[i].menu_label) = lower(label)

(* C9: dividers and option boxes are never counted among the sibling names:
   a reported conflict comes from a record that is neither, or from a
   virtual folder. *)
C9_DividerExclusion ==
    pc = "checked" =>
        (probe.result =>
            \/ CountedDirectMatch(current_menu_data, probe.label, probe.path,
                                  probe.excluding)
            \/ VirtualFolderMatch(current_menu_data, probe.label, probe.path))

-----------------------------------------------------------------------------
(* Claims on the gestures *)

IsSatellite(r) == r.is_option_box
IsPlainItem(r) == ~r.is_option_box /\ ~r.is_divider

(* C3: in every state reached through the gestures, each option-box record
   is immediately preceded in the list by a record with the same path that is
   neither an option box nor a divider. *)
C3_OptionBoxAdjacency ==
    pc = "editor" =>
        \A i \in 1..Len(current_menu_data) :
            IsSatellite(current_menu_data[i]) =>
                /\ i > 1
                /\ current_menu_data[i - 1].sub_menu_path
                      = current_menu_data[i].sub_menu_path
                /\ IsPlainItem(current_menu_data[i - 1])

Pos(store, id) == CHOOSE k \in 1..Len(store) : store[k].id = id

\* position i of the store holds an owner and position i + 1 its satellite
OwnerAt(store, i) ==
    /\ i < Len(store)
    /\ IsPlainItem(store[i])
    /\ IsSatellite(store[i + 1])
    /\ store[i + 1].sub_menu_path = store[i].sub_menu_path

(* C4: after an accepted drop of an owner that was immediately followed by
   its satellite, the satellite is the record right after the owner in the
   new list and has the owner's new path. *)
C4_SatelliteFollowsOwner ==
    [][(last'.gesture = "drop" /\ last'.outcome = "accepted") =>
          \A i \in 1..Len(current_menu_data) :
              (current_menu_data[i].id = last'.source /\ OwnerAt(current_menu_data, i)) =>
                  LET j == Pos(current_menu_data', last'.source)
                  IN  /\ j < Len(current_menu_data')
                      /\ current_menu_data'[j + 1].id = current_menu_data[i + 1].id
                      /\ current_menu_data'[j + 1].sub_menu_path
                            = current_menu_data'[j].sub_menu_path]_vars

IsSatelliteNode(t, store, i) == t[i].data # 0 /\ IsSatellite(NodeRec(t, store, i))

\* node o wraps an owner and its next sibling wraps the satellite
OwnerNode(t, store, o) ==
    /\ t[o].data # 0
    /\ IsPlainItem(NodeRec(t, store, o))
    /\ NextSibling(t, o) # 0
    /\ IsSatelliteNode(t, store, NextSibling(t, o))

\* the drop position is on a satellite or between an owner and its satellite
ForbiddenPosition(t, store, target, indicator) ==
    \/ indicator = "OnItem" /\ IsSatelliteNode(t, store, target)
    \/ indicator = "BelowItem" /\ OwnerNode(t, store, target)
    \/ /\ indicator = "AboveItem" /\ IsSatelliteNode(t, store, target)
       /\ PrevSibling(t, target) # 0
       /\ OwnerNode(t, store, PrevSibling(t, target))

(* C5: every drop onto a satellite, below an owner or above its satellite
   is rejected by dropEvent, whatever is dragged and whatever is expanded
   (a rejected drop changes neither tree nor store and emits nothing). *)
C5_ForbiddenDropRejected ==
    pc = "editor" =>
        \A source \in Nodes, target \in Nodes,
           indicator \in {"OnItem", "AboveItem", "BelowItem"}, expanded \in BOOLEAN :
            (/\ IsDragEnabled(tree, current_menu_data, source)
             /\ indicator # "OnItem"
                   => IsDropEnabled(tree, current_menu_data, ParentOf(tree, target))
             /\ expanded => HasChildren(tree, target)
             /\ ForbiddenPosition(tree, current_menu_data, target, indicator))
                => dropEvent_rejects(tree, current_menu_data, target, indicator, expanded)

(* C6: in every state reached through the gestures, no two plain records
   with the same path have labels equal ignoring case, and no plain record's
   label equals, ignoring case, the name of a virtual folder directly under
   its path. *)
C6_SiblingNamesUnique ==
    pc = "editor" =>
        \A i \in 1..Len(current_menu_data) :
            IsPlainItem(current_menu_data[i]) =>
                /\ \A j \in 1..Len(current_menu_data) :
                      (/\ j # i
                       /\ IsPlainItem(current_menu_data[j])
                       /\ current_menu_data[j].sub_menu_path
                             = current_menu_data[i].sub_menu_path)
                          => lower(current_menu_data[j].menu_label)
                                # lower(current_menu_data[i].menu_label)
                /\ ~VirtualFolderMatch(current_menu_data, current_menu_data[i].menu_label,
                                       current_menu_data[i].sub_menu_path)

(* C10: a folder rename, a new-item commit or an edit commit rejected for a
   name conflict leaves the store exactly as it was, and the rejected rename
   leaves the tree showing the old folder name. *)
C10_RejectedLeavesStore ==
    [][last'.outcome = "conflict" =>
          /\ last'.gesture \in {"rename", "add", "edit"}
          /\ current_menu_data' = current_menu_data
          /\ last'.gesture = "rename" => tree' = tree]_vars

\* an edit commit was rejected while the store differed from the flattened tree
C10_Witness ==
    /\ last = Done("edit", "conflict")
    /\ current_menu_data # _sync_data_from_ui(tree, current_menu_data)

\* the record of the store with identity id was promoted by this step
Promoted(id) ==
    /\ \E k \in 1..Len(current_menu_data) :
          current_menu_data[k].id = id /\ ~current_menu_data[k].is_option_box
    /\ \E k \in 1..Len(current_menu_data') :
          current_menu_data'[k].id = id /\ current_menu_data'[k].is_option_box

\* the node before node i at its level wraps an item that is not a satellite
PredecessorIsPlainItem(t, store, i) ==
    LET p == PrevSibling(t, i)
    IN  IF p = 0 THEN FALSE
        ELSE IF t[p].data = 0 THEN FALSE
        ELSE ~NodeRec(t, store, p).is_option_box

\* C11: a record goes from is_option_box false to true only by an accepted
\* toggle of its own node, and only when the node before it at the same level
\* of the displayed tree wraps an item that is not a satellite (so never for a
\* first child); a refused toggle leaves the store as it was
C11_PromotionNeedsPlainPredecessor ==
    [][/\ \A id \in Ids(current_menu_data) :
             Promoted(id) =>
                /\ last' = [gesture |-> "toggle", outcome |-> "accepted", source |-> id]
                /\ \E i \in Nodes :
                      /\ tree[i].data = id
                      /\ PredecessorIsPlainItem(tree, current_menu_data, i)
       /\ last' = Done("toggle", "refused") => current_menu_data' = current_menu_data]_vars

C11_Witness ==
    /\ last.gesture = "toggle" /\ last.outcome = "accepted"
    /\ \E k \in 1..Len(current_menu_data) :
          /\ current_menu_data[k].id = last.source
          /\ current_menu_data[k].is_option_box

\* C12: no option-box record is immediately preceded in the list by a divider
\* record at the same path (a divider never accepts a satellite, the
\* promotion of the item after it is refused), and no divider record has
\* is_option_box set
C12_DividerNeverOwns ==
    /\ \A k \in 2..Len(current_menu_data) :
          ~ /\ current_menu_data[k].is_option_box
            /\ current_menu_data[k - 1].is_divider
            /\ current_menu_data[k - 1].sub_menu_path = current_menu_data[k].sub_menu_path
    /\ \A k \in 1..Len(current_menu_data) :
          ~(current_menu_data[k].is_divider /\ current_menu_data[k].is_option_box)

\* the order values read in list position are 10, 20, ..., 10 * n
OrdersByPosition(store) == \A k \in 1..Len(store) : store[k].order = 10 * k

\* C13: after every committed mutation of the store (add, edit commit, rename,
\* drop, add separator, merge) the order values read in list position are
\* 10, 20, ..., 10 * n
C13_OrdersAfterMutation ==
    [][(/\ last'.outcome = "accepted"
        /\ last'.gesture \in {"add", "edit", "rename", "drop", "separator", "merge"})
          => OrdersByPosition(current_menu_data')]_vars

\* the "/"-joined names of the folder nodes on the way from the root to node i
RECURSIVE FolderNamesAbove(_, _)
FolderNamesAbove(t, i) ==
    LET parent == ParentOf(t, i)
    IN  IF parent = 0 THEN <<>>
        ELSE IF t[parent].data = 0
        THEN join_path(FolderNamesAbove(t, parent), t[parent].text)
        ELSE FolderNamesAbove(t, parent)

\* the record nodes of the tree in depth-first order (the tree is kept in pre-order)
RecordNodes(t) == SelectSeq([i \in 1..Len(t) |-> t[i].data], LAMBDA d : d # 0)

\* C14: after a flatten of the displayed tree every record's path is the
\* "/"-joined names of the folder nodes between the root and the record's
\* node ("" at top level), and the records come out in depth-first,
\* sibling-order-preserving order
C14_FlattenPathsFromPosition ==
    pc = "flat1" =>
        /\ [k \in 1..Len(current_menu_data) |-> current_menu_data[k].id] = RecordNodes(tree)
        /\ \A i \in 1..Len(tree) :
              tree[i].data # 0 =>
                 Rec(current_menu_data, tree[i].data).sub_menu_path = FolderNamesAbove(tree, i)

\* C15: right after a flatten the record at 0-based index i of the new list
\* has order (i + 1) * 10 (1-based position k: order 10 * k)
C15_FlattenRenumbers ==
    pc \in {"flat1", "flat2"} =>
        \A k \in 1..Len(current_menu_data) : current_menu_data[k].order = k * 10

C15_Witness ==
    /\ pc = "flat1"
    /\ Len(current_menu_data) = MaxLen
    /\ current_menu_data[MaxLen].order = 10 * MaxLen
    /\ \A k \in 1..Len(snap.input) : snap.input[k].order = 10

\* the records of store, in list order, that do not lie in the folder F or below it
OutsideFolder(store, F) ==
    SelectSeq(store, LAMBDA r : ~(r.sub_menu_path = F \/ IsProperSegmentPrefix(F, r.sub_menu_path)))

\* C16: a confirmed delete of the folder with path F removes exactly the
\* records whose path is F or starts with F + "/"; all other records, also
\* those whose path merely begins with the characters of F, stay as they are
\* and in the same relative order
C16_DeleteFolderExact ==
    (pc = "deleted" /\ probe.data = 0 /\ probe.reply = "Yes") =>
        current_menu_data = OutsideFolder(snap.input, probe.path)

C16_Witness ==
    /\ pc = "deleted" /\ probe.data = 0 /\ probe.reply = "Yes"
    /\ probe.path = <<"t">>
    /\ \E k \in 1..Len(snap.input) : snap.input[k].sub_menu_path = <<"t", "/", "x">>
    /\ Len(current_menu_data) = 1
    /\ current_menu_data[1].sub_menu_path = <<"t", "2">>

\* the list without the records at the positions gone
WithoutPositions(store, gone) ==
    LET F[k \in 0..Len(store)] ==
            IF k = 0 THEN <<>>
            ELSE IF k \in gone THEN F[k - 1] ELSE Append(F[k - 1], store[k])
    IN  F[Len(store)]

\* the positions a delete of the record with identity id is to remove: its
\* own and, when the record right after it is its satellite, that one
PositionsToDelete(store, id) ==
    LET p == Pos(store, id)
    IN  IF ~store[p].is_option_box /\ p < Len(store) /\ store[p + 1].is_option_box
        THEN {p, p + 1}
        ELSE {p}

\* C17: a confirmed delete of a single item removes exactly that record and,
\* when it owns one, its satellite; every other record stays, in the same
\* relative order, also a record equal to the deleted one field by field
C17_DeleteItemByIdentity ==
    [][(last'.gesture = "delete" /\ last'.outcome = "accepted" /\ last'.source # 0) =>
          current_menu_data' =
              WithoutPositions(current_menu_data,
                               PositionsToDelete(current_menu_data, last'.source))]_vars

-----------------------------------------------------------------------------
(* Claims on the build engine *)

\* the path prefixes of one path: "t/x" has "t" and "t/x"
PrefixesOf(path) ==
    IF path = <<>> THEN {}
    ELSE {join(SubSeq(split(path), 1, j)) : j \in 1..Len(split(path))}

\* every distinct path prefix occurring in the list
PathPrefixes(data) == UNION {PrefixesOf(data[k].sub_menu_path) : k \in 1..Len(data)}

\* the prefix one segment shorter
ShorterPrefix(key) == join(SubSeq(split(key), 1, Len(split(key)) - 1))

CreatingCalls(b) == {c \in 1..Len(b.calls) : b.calls[c].op \in {"menu", "subMenu"}}

InOptionVar(b, h) == \E n \in 1..Len(b.optionVar) : b.optionVar[n] = h

\* the prefix key has one cached handle, made by the right call under the right parent
PrefixHandleCreated(b, key) ==
    IF ~CacheHas(b.parent_menu_cache, key) THEN FALSE
    ELSE LET h == CacheGet(b.parent_menu_cache, key)
             parts == split(key)
         IN  /\ Cardinality({e \in b.parent_menu_cache : e.key = key}) = 1
             /\ h \in CreatingCalls(b)
             /\ b.calls[h].label = parts[Len(parts)]
             /\ IF Len(parts) = 1
                THEN /\ b.calls[h].op = "menu"
                     /\ b.calls[h].parent = gMainWindow
                     /\ InOptionVar(b, h)
                ELSE /\ b.calls[h].op = "subMenu"
                     /\ CacheHas(b.parent_menu_cache, ShorterPrefix(key))
                     /\ b.calls[h].parent = CacheGet(b.parent_menu_cache, ShorterPrefix(key))
             /\ \A c \in 1..Len(b.calls) : b.calls[c].parent = h => c > h

\* C18: within one build every distinct path prefix of the list gets exactly
\* one parent handle, created and cached: a one-segment prefix by the
\* create-top-level call (its handle entered in the registry), a deeper one
\* by a create-submenu call under the handle of the prefix one segment
\* shorter, and always before anything is placed under it
C18_OneHandlePerPrefix ==
    pc = "built" =>
        /\ \A key \in PathPrefixes(snap.input) : PrefixHandleCreated(probe, key)
        /\ Cardinality(CreatingCalls(probe)) = Cardinality(PathPrefixes(snap.input))

\* the handle that corresponds to a path; the main window for ""
HasHandleOf(b, path) == path = <<>> \/ CacheHas(b.parent_menu_cache, path)
HandleOf(b, path) ==
    IF path = <<>> THEN gMainWindow ELSE CacheGet(b.parent_menu_cache, path)

CallsFor(b, op, id) == {c \in 1..Len(b.calls) : b.calls[c].op = op /\ b.calls[c].item = id}

\* C19: every divider record of the built list produces exactly one
\* create-divider call, under the handle of the divider's own path, also
\* when it is the first record in sorted order or follows a record with
\* another path
C19_DividerUnderOwnPath ==
    pc = "built" =>
        \A k \in 1..Len(snap.input) :
            snap.input[k].is_divider =>
               /\ Cardinality(CallsFor(probe, "divider", snap.input[k].id)) = 1
               /\ HasHandleOf(probe, snap.input[k].sub_menu_path)
               /\ \A c \in CallsFor(probe, "divider", snap.input[k].id) :
                     IF HasHandleOf(probe, snap.input[k].sub_menu_path)
                     THEN probe.calls[c].parent = HandleOf(probe, snap.input[k].sub_menu_path)
                     ELSE FALSE

\* C20: every non-divider record of the built list produces exactly one
\* create-leaf call, under the handle of the record's path, with the
\* record's label and an option flag equal to is_option_box, whatever the
\* label is
C20_LeafPerRecord ==
    pc = "built" =>
        \A k \in 1..Len(snap.input) :
            ~snap.input[k].is_divider =>
               /\ Cardinality(CallsFor(probe, "leaf", snap.input[k].id)) = 1
               /\ \A c \in CallsFor(probe, "leaf", snap.input[k].id) :
                     /\ HasHandleOf(probe, snap.input[k].sub_menu_path)
                     /\ IF HasHandleOf(probe, snap.input[k].sub_menu_path)
                        THEN probe.calls[c].parent =
                                 HandleOf(probe, snap.input[k].sub_menu_path)
                        ELSE FALSE
                     /\ probe.calls[c].label = snap.input[k].menu_label
                     /\ probe.calls[c].optionBox = snap.input[k].is_option_box

-----------------------------------------------------------------------------
(* Claims on build requests *)

\* the objects the run b of build n created, as the host holds them
ObjectsOf(b, n) ==
    {[build |-> n, handle |-> b.calls[c].handle, parent |-> b.calls[c].parent,
      op |-> b.calls[c].op, label |-> b.calls[c].label,
      optionBox |-> b.calls[c].optionBox] : c \in 1..Len(b.calls)}

\* C21: after each build request of the editor the host holds exactly the
\* menu objects that request's build created, nothing of an earlier build
\* survives (leaves of records with path "" included), and the registry
\* lists exactly the top-level handles of the latest build
C21_ClearThenRebuild ==
    (pc = "built" /\ last.gesture = "build") =>
        /\ host.objects = ObjectsOf(probe, host.builds)
        /\ host.optionVar = [k \in 1..Len(probe.optionVar) |->
                                [build |-> host.builds, handle |-> probe.optionVar[k]]]

\* the latest two build requests were given the same list
SameListTwice == pc = "built" /\ host.builds >= 2 /\ snap.input = snap.first

\* C22: for a fixed list, two builds run one after the other with a clear
\* between them issue the same sequence of host calls (kinds, labels,
\* parents, option flags, order), also when records share an order value
C22_BuildDeterminism == SameListTwice => probe.calls = snap.calls

C22_Witness ==
    /\ SameListTwice
    /\ last.gesture = "startup"
    /\ Len(snap.input) = 2
    /\ snap.input[1].order = snap.input[2].order
    /\ snap.input[1].sub_menu_path # snap.input[2].sub_menu_path
    /\ Len(probe.calls) = 4

-----------------------------------------------------------------------------
(* Claims on persistence *)

\* a JSON value that is not a valid record: not an object, an object with a
\* member that is no field of the record, or a field of a wrong type
NotAValidRecord(v) ==
    IF v.json # "object" THEN TRUE
    ELSE \/ ~(DOMAIN v.obj \subseteq DeclaredFields)
         \/ ~v.well_typed

\* the file is missing, is not JSON, or is an array with an invalid record
LoadMustFail(file) ==
    IF file.kind # "json" THEN TRUE
    ELSE IF file.value.json # "array" THEN FALSE
    ELSE \E k \in 1..Len(file.value.elements) : NotAValidRecord(file.value.elements[k])

\* C23: loading never raises past load_menu_config: for a missing file,
\* malformed JSON, or a JSON array holding an object that is not a valid
\* record, it returns the empty list and the caller goes on
C23_LoadFailureGivesEmptyList ==
    (pc = "loaded" /\ LoadMustFail(snap.file)) =>
        /\ ~probe.raised
        /\ probe.returned = <<>>

\* C24: saving a list the editor holds and loading the same configuration
\* returns a list of the same length whose records equal the saved ones
\* field by field, in the same order
C24_PersistenceRoundTrip ==
    pc = "reloaded" =>
        /\ Len(current_menu_data) = Len(snap.input)
        /\ \A k \in 1..Len(snap.input) :
              IF k <= Len(current_menu_data)
              THEN to_dict(current_menu_data[k]) = to_dict(snap.input[k])
              ELSE FALSE

-----------------------------------------------------------------------------
(* Claims on drops onto a node *)

\* node i wraps a record that is neither a divider nor a satellite and has
\* no node below it
PlainLeafNode(t, store, i) ==
    /\ t[i].data # 0
    /\ IsPlainItem(NodeRec(t, store, i))
    /\ ~HasChildren(t, i)

\* node i wraps a record that owns a satellite in the store
OwnsSatellite(t, store, i) ==
    /\ t[i].data # 0
    /\ OwnerAt(store, Pos(store, t[i].data))

\* the drop of an item without satellite exactly onto a plain leaf
OntoLeaf(source, target) ==
    /\ source # target
    /\ tree[source].data # 0
    /\ ~OwnsSatellite(tree, current_menu_data, source)
    /\ PlainLeafNode(tree, current_menu_data, target)

(* C25: a drop exactly onto a leaf item that is neither a divider nor a
   satellite, of an item that owns no satellite, succeeds; afterwards the
   dragged record is an option box, has the path of the destination leaf and
   is the record right after the destination in the list. *)
C25_PromoteByDrop ==
    [][\A source \in Nodes, target \in Nodes :
          (OntoLeaf(source, target) /\ DropAt(source, target, "OnItem", FALSE)) =>
              /\ last'.outcome = "accepted"
              /\ LET dragged == Rec(current_menu_data', tree[source].data)
                     destination == Rec(current_menu_data', tree[target].data)
                 IN  /\ dragged.is_option_box
                     /\ dragged.sub_menu_path = destination.sub_menu_path
                     /\ Pos(current_menu_data', dragged.id)
                           = Pos(current_menu_data', destination.id) + 1]_vars

(* C26: a drop exactly onto a folder node of an item that owns a satellite is
   rejected and leaves the displayed tree and the store as they were. *)
C26_OwnerNotReparented ==
    [][\A source \in Nodes, target \in Nodes :
          (/\ OwnsSatellite(tree, current_menu_data, source)
           /\ IsFolderNode(tree, target)
           /\ DropAt(source, target, "OnItem", FALSE)) =>
              /\ last'.outcome = "rejected"
              /\ tree' = tree
              /\ current_menu_data' = current_menu_data]_vars

-----------------------------------------------------------------------------
(* Claims on the tree as a view of the store *)

\* the drop went through dropEvent
DropAccepted(l) == l.gesture = "drop" /\ l.outcome \in {"accepted", "folder"}

\* the records of a list in their order with their paths, the order numbers
\* left aside
PathsAndListOrder(store) == [k \in 1..Len(store) |-> [store[k] EXCEPT !.order = 0]]

(* C27: when the handler of a drop the tree accepted has returned, the store
   is the flatten of the displayed tree: its paths and its list order are
   those of the tree after the move, for a dragged node that wraps an item
   and for a dragged folder node. *)
C27_DropCommitted ==
    [][DropAccepted(last') =>
          PathsAndListOrder(current_menu_data')
              = PathsAndListOrder(_sync_data_from_ui(tree', current_menu_data'))]_vars

\* what a tree shows: the nodes with their texts, records and nesting
Displayed(t) ==
    [k \in 1..Len(t) |-> [text |-> t[k].text, data |-> t[k].data, depth |-> t[k].depth]]

(* C28: whenever a gesture handler has returned, the displayed tree is the
   projection of the current store: the tree a rebuild from the store would
   show, so that no later rebuild takes back what the user saw accepted. *)
C28_TreeIsProjectionOfStore ==
    pc = "editor" =>
        Displayed(tree) = Displayed(populate_menu_tree(current_menu_data))

\* the tree is a projection just built from the store
Projected == pc \in {"tree1", "tree2"}

(* C29: in a projection every record hangs under the root (path "") or under
   the folder node whose cumulative path is the record's path, never under a
   node that wraps another record, also when a record's label is the name of
   a folder at the same level. *)
C29_RecordsUnderFolders ==
    Projected =>
        \A i \in 1..Len(tree) :
            tree[i].data # 0 =>
                LET parent == ParentOf(tree, i)
                    path == Rec(current_menu_data, tree[i].data).sub_menu_path
                IN  IF parent = 0 THEN path = <<>>
                    ELSE /\ IsFolderNode(tree, parent)
                         /\ get_path_for_item(tree, parent) = path

-----------------------------------------------------------------------------
(* Claims on the edit commit *)

\* the step commits an edit that changes the path of the record `id`
EditCommitMoves(id) ==
    /\ last'.gesture = "edit" /\ last'.outcome = "accepted"
    /\ current_edit_item.node = "live" /\ current_edit_item.data = id
    /\ Rec(current_menu_data', id).sub_menu_path
          # Rec(current_menu_data, id).sub_menu_path

\* in the list, the record `satellite` is right after the record `owner` and
\* has its path
PairedIn(store, owner, satellite) ==
    /\ Pos(store, satellite) = Pos(store, owner) + 1
    /\ Rec(store, satellite).sub_menu_path = Rec(store, owner).sub_menu_path

(* C30: after the editor commits a change of path on a record that owns a
   satellite, or on a record that is a satellite, the satellite is still the
   record right after its owner in the list and both have the same path. *)
C30_EditKeepsPairing ==
    [][\A i \in 1..Len(current_menu_data) :
          (/\ OwnerAt(current_menu_data, i)
           /\ \/ EditCommitMoves(current_menu_data[i].id)
              \/ EditCommitMoves(current_menu_data[i + 1].id)) =>
              PairedIn(current_menu_data', current_menu_data[i].id,
                       current_menu_data[i + 1].id)]_vars

-----------------------------------------------------------------------------
(* Claims on the rename of a folder *)

\* path is prefix or lies below it
UnderFolder(path, prefix) == path = prefix \/ startswith(path, prefix \o <<"/">>)

\* path with its leading old_path replaced by new_path
Rewritten(path, old_path, new_path) ==
    new_path \o SubSeq(path, Len(old_path) + 1, Len(path))

\* the records of `after` are those of `before`, the records for which
\* Touched holds left aside, with the same fields and in the same relative order
OthersUnchanged(before, after, touched) ==
    \A x \in Ids(before) \ touched :
        /\ Rec(after, x).sub_menu_path = Rec(before, x).sub_menu_path
        /\ Rec(after, x).menu_label = Rec(before, x).menu_label
        /\ \A y \in Ids(before) \ touched :
              (Pos(before, x) < Pos(before, y)) = (Pos(after, x) < Pos(after, y))

(* C31: an accepted rename of the folder with path P/old to the name new
   rewrites, for every record whose path is P/old or lies below it, exactly
   that leading prefix to P/new; path, label and relative list order of every
   other record are unchanged, and no record is added or removed. *)
C31_RenameRewritesPrefix ==
    [][\A i \in Nodes, new_name \in RenameNames :
          (RenameAt(i, new_name) /\ last'.outcome = "accepted") =>
              LET old_path == get_path_for_item(tree, i)
                  new_path == join_path(get_path_for_item(tree, ParentOf(tree, i)),
                                        new_name)
                  touched == {x \in Ids(current_menu_data) :
                                 UnderFolder(Rec(current_menu_data, x).sub_menu_path,
                                             old_path)}
              IN  /\ Len(current_menu_data') = Len(current_menu_data)
                  /\ Ids(current_menu_data') = Ids(current_menu_data)
                  /\ \A x \in touched :
                        Rec(current_menu_data', x).sub_menu_path
                            = Rewritten(Rec(current_menu_data, x).sub_menu_path,
                                        old_path, new_path)
                  /\ OthersUnchanged(current_menu_data, current_menu_data', touched)]_vars

-----------------------------------------------------------------------------
(* Claims on the editor's state *)

Accepted(l, gesture) == l.gesture = gesture /\ l.outcome = "accepted"

\* the step commits a new item: it is right after the target of the "add
\* under" gesture when that record is still in the store, last otherwise
PlacedByTarget ==
    LET new == CHOOSE x \in Ids(current_menu_data') : x \notin Ids(current_menu_data)
        target == insertion_target_item_data
    IN  IF target.set /\ target.ref \in Ids(current_menu_data)
        THEN Pos(current_menu_data', new) = Pos(current_menu_data', target.ref) + 1
        ELSE Pos(current_menu_data', new) = Len(current_menu_data')

\* the gestures the claim names as clearing the insertion target
ClearsTarget(l) ==
    \/ Accepted(l, "add") \/ Accepted(l, "edit")
    \/ l.gesture = "cancel"
    \/ l.gesture = "add_mode"

(* C32: a new item committed after "add under" on T is inserted right after T
   when T is still in the store and appended otherwise; every commit (add or
   update), cancel and entry into add mode clears the insertion target, so
   that it never survives into a later add. *)
C32_NewItemPlacement ==
    [][/\ Accepted(last', "add") => PlacedByTarget
       /\ ClearsTarget(last') => ~insertion_target_item_data'.set]_vars

-----------------------------------------------------------------------------
(* Claims on save and build requests *)

\* every owner of the list is followed by its satellite after the sort as well
SatellitesStayAfterOwners(list) ==
    \A i \in 1..Len(list) :
        OwnerAt(list, i) =>
            Pos(sorted(list), list[i + 1].id) = Pos(sorted(list), list[i].id) + 1

\* the list is as the flatten leaves it and the build's sort keeps it so
FreshlyFlattened(list) ==
    /\ \A k \in 1..Len(list) : list[k].order = 10 * k
    /\ sorted(list) = list
    /\ SatellitesStayAfterOwners(list)

(* C33: save, save-as and build act on a freshly flattened store: the list
   they hand to persistence or to the build has the order values 10, 20, ...,
   10 * n in list position, so that the build's sort by order leaves it in
   the displayed depth-first order, every satellite right after its owner. *)
C33_FreshlyFlattened ==
    (pc = "editor" /\ last.gesture = "save") => FreshlyFlattened(current_menu_data)

\* a list of three records with an owner and its satellite has just been saved
C33_Witness ==
    /\ pc = "editor"
    /\ last.gesture = "save"
    /\ Len(current_menu_data) = 3
    /\ \E i \in 1..Len(current_menu_data) : OwnerAt(current_menu_data, i)

\* what the user edits: the records of the store and the tree on display
Content(store, t) == <<store, Displayed(t)>>

(* C34: every gesture that changes the content (add, edit, rename, drop of an
   item or of a folder, delete, separator, toggle, merge, shelf import) sets
   is_dirty, so that a clear flag means that store and tree are as last
   loaded or written; a save whose write fails does not clear the flag. *)
C34_DirtyFlagSound ==
    [][/\ (/\ last'.gesture \notin {"open", "save"}
           /\ Content(current_menu_data', tree') # Content(current_menu_data, tree))
             => is_dirty'
       /\ (last'.gesture = "save" /\ last'.outcome = "failed" /\ is_dirty)
             => is_dirty']_vars

-----------------------------------------------------------------------------
(* Claims on closing the window *)

(* C35: while is_dirty is true the window closes only after the answer Save,
   the save handler having run before the close is accepted, or Discard; on
   Cancel the close event is ignored and window and store stay as they were;
   while is_dirty is false a close request is accepted without a prompt. *)
C35_CloseGuard ==
    [][last'.gesture = "close" =>
          IF is_dirty
          THEN /\ probe'.prompted
               /\ (pc' = "closed") = (probe'.reply \in {"Save", "Discard"})
               /\ probe'.reply = "Save" =>
                     /\ current_menu_data' = _sync_data_from_ui(tree, current_menu_data)
                     /\ last'.outcome \in {"done", "failed"}
               /\ probe'.reply = "Cancel" =>
                     /\ pc' = pc
                     /\ current_menu_data' = current_menu_data
                     /\ tree' = tree
                     /\ is_dirty'
          ELSE /\ ~probe'.prompted
               /\ pc' = "closed"]_vars

\* an edited window was closed with Save and the save changed the store
C35_Witness ==
    /\ pc = "closed"
    /\ probe.prompted /\ probe.reply = "Save"
    /\ snap.input # current_menu_data

-----------------------------------------------------------------------------
(* Claims on edit mode *)

\* current_edit_item is set
InEditMode == current_edit_item.node # "none"

(* C36: whenever current_edit_item is set it refers to a node of the
   displayed tree whose record is in the store: every operation that rebuilds
   the tree or replaces the store leaves edit mode first or cannot occur in
   edit mode. *)
C36_NoDanglingEditItem ==
    (pc = "editor" /\ InEditMode) =>
        /\ current_edit_item.node = "live"
        /\ current_edit_item.data \in Ids(current_menu_data)
        /\ \E i \in 1..Len(tree) : tree[i].data = current_edit_item.data

(* C37: after any gesture the tree view is disabled exactly when
   current_edit_item is set; edit mode is entered only by a double-click on a
   node that wraps a non-divider record and left by a successful update
   commit or a cancel, each of which enables the tree again; an update
   rejected for a name conflict stays in edit mode. *)
C37_EditModeLock ==
    [][/\ tree_enabled' = ~InEditMode'
       /\ (~InEditMode /\ InEditMode') =>
             /\ last'.gesture = "double_click"
             /\ current_edit_item'.data \in Ids(current_menu_data)
             /\ ~Rec(current_menu_data, current_edit_item'.data).is_divider
       /\ (InEditMode /\ ~InEditMode') =>
             /\ Accepted(last', "edit") \/ last'.gesture = "cancel"
             /\ tree_enabled'
       /\ (last'.gesture = "edit" /\ last'.outcome = "conflict") =>
             /\ InEditMode'
             /\ current_edit_item' = current_edit_item]_vars

\* an update was rejected for a name conflict and the editor is still in edit
\* mode with the tree disabled
C37_Witness ==
    /\ pc = "editor"
    /\ last.gesture = "edit" /\ last.outcome = "conflict"
    /\ current_edit_item.node = "live"
    /\ ~tree_enabled

-----------------------------------------------------------------------------
(* Claims on the package entry points *)

(* C38: over any sequence of show() and reload_all() calls the package
   references no controller or the one constructed last; show() constructs a
   controller only when the package references none and otherwise shows the
   window of the referenced one again; reload_all() always ends with no
   instance, also when the cleanup of the old window raises; every controller
   has wired its signals at most once. *)
C38_SingleController ==
    [][/\ probe'.instance \in {0, Len(probe'.controllers)}
       /\ \A k \in 1..Len(probe'.controllers) : probe'.controllers[k].connections <= 1
       /\ last'.gesture = "show" =>
             /\ Len(probe'.controllers) > Len(probe.controllers) => probe.instance = 0
             /\ probe.instance # 0 =>
                   /\ probe'.instance = probe.instance
                   /\ probe'.controllers[probe.instance].ui = "shown"
       /\ last'.gesture = "reload_all" => probe'.instance = 0]_vars

\* the cleanup of the first controller raised in clean_up, its window is still
\* open, and the next show() has constructed the second controller
C38_Witness ==
    /\ pc = "package"
    /\ last = Done("show", "constructed")
    /\ probe.instance = 2
    /\ probe.controllers[1].ui = "shown"
    /\ probe.controllers[1].filter

-----------------------------------------------------------------------------
(* Claims on the signals of the tree view *)

InWrappedHandler == pc \in {"wrapped", "rebuilt", "finally"}

(* C39: while the rename handler wrapped by block_ui_signals runs, the
   signals of the tree view are blocked at every point of its execution, also
   after the rebuild of the tree nested in it; they are unblocked once the
   handler has returned or raised; the restore of the text and the rebuild
   never enter the rename handler a second time. *)
C39_SignalsBlocked ==
    /\ InWrappedHandler => probe.blockSignals
    /\ pc = "idle" => ~probe.blockSignals
    /\ pc \in {"idle", "wrapped", "rebuilt", "finally"} => probe.entered <= 1

====
